---- MODULE Spec2Model ----
(***************************************************************************)
(* ClickHouse database plugin: the credential lifecycle manager            *)
(* (clickhouse.go) on top of the connection producer                       *)
(* (connection_producer.go).                                               *)
(*                                                                         *)
(* Go strings are modelled as sequences of one-character strings, so that  *)
(* placeholder substitution and statement splitting are computed on the    *)
(* text, character by character, as the code does.                         *)
(***************************************************************************)
EXTENDS Integers, Sequences, FiniteSets, TLC

----------------------------------------------------------------------------
(* Text constants of the program and of the requests the model issues.     *)

\* "DROP USER IF EXISTS '{{name}}'"
defaultRevocationStatement ==
    <<"D","R","O","P"," ","U","S","E","R"," ","I","F"," ","E","X","I","S","T","S"," ","'","{","{","n","a","m","e","}","}","'">>
\* "ALTER USER IF EXISTS '{{name}}' IDENTIFIED BY '{{password}}'"
defaultRotateCredentialsStatement ==
    <<"A","L","T","E","R"," ","U","S","E","R"," ","I","F"," ","E","X","I","S","T","S"," ","'","{","{","n","a","m","e","}","}","'"," ","I","D","E","N","T","I","F","I","E","D"," ","B","Y"," ","'","{","{","p","a","s","s","w","o","r","d","}","}","'">>

(* Statements a caller supplies in a request. *)
\* "CREATE USER '{{name}}' IDENTIFIED BY '{{password}}'; GRANT r TO '{{username}}'"
CreateAndGrantStatement ==
    <<"C","R","E","A","T","E"," ","U","S","E","R"," ","'","{","{","n","a","m","e","}","}","'"," ","I","D","E","N","T","I","F","I","E","D"," ","B","Y"," ","'","{","{","p","a","s","s","w","o","r","d","}","}","'",";"," ","G","R","A","N","T"," ","r"," ","T","O"," ","'","{","{","u","s","e","r","n","a","m","e","}","}","'">>
\* "ALTER USER '{{name}}' VALID UNTIL '{{expiration}}'"
ValidUntilStatement ==
    <<"A","L","T","E","R"," ","U","S","E","R"," ","'","{","{","n","a","m","e","}","}","'"," ","V","A","L","I","D"," ","U","N","T","I","L"," ","'","{","{","e","x","p","i","r","a","t","i","o","n","}","}","'">>
\* "ALTER USER '{{name}}' IDENTIFIED BY '{{password}}'"
RotateStatement ==
    <<"A","L","T","E","R"," ","U","S","E","R"," ","'","{","{","n","a","m","e","}","}","'"," ","I","D","E","N","T","I","F","I","E","D"," ","B","Y"," ","'","{","{","p","a","s","s","w","o","r","d","}","}","'">>
\* "REVOKE ALL FROM '{{name}}'; DROP USER '{{name}}'"
RevokeStatement ==
    <<"R","E","V","O","K","E"," ","A","L","L"," ","F","R","O","M"," ","'","{","{","n","a","m","e","}","}","'",";"," ","D","R","O","P"," ","U","S","E","R"," ","'","{","{","n","a","m","e","}","}","'">>

(* Keys of the placeholder maps built by the lifecycle calls. *)
\* "name"
K_name ==
    <<"n","a","m","e">>
\* "username"
K_username ==
    <<"u","s","e","r","n","a","m","e">>
\* "password"
K_password ==
    <<"p","a","s","s","w","o","r","d">>
\* "expiration"
K_expiration ==
    <<"e","x","p","i","r","a","t","i","o","n">>

(* Request values. *)
\* "u1"
ReqUsername ==
    <<"u","1">>
\* "p;w"
ReqPassword ==
    <<"p",";","w">>
\* "token"
ReqDisplayName ==
    <<"t","o","k","e","n">>
\* "testrole"
ReqRoleName ==
    <<"t","e","s","t","r","o","l","e">>

(* Outcomes of the template functions random(15) and unix_time. *)
\* "A1b2C3d4E5f6G7h"
RandomA ==
    <<"A","1","b","2","C","3","d","4","E","5","f","6","G","7","h">>
\* "z9Y8x7W6v5U4t3S"
RandomB ==
    <<"z","9","Y","8","x","7","W","6","v","5","U","4","t","3","S">>
\* "1700000000"
UnixTimeNow ==
    <<"1","7","0","0","0","0","0","0","0","0">>

----------------------------------------------------------------------------
(* Pure text functions.                                                    *)

\* unicode.IsSpace on the characters the model uses.
IsSpace(ch) == ch \in {" ", "\t", "\n", "\r", "\f"}

\* strings.TrimSpace: s without its leading and trailing white space.
TrimSpace(s) ==
    LET kept == {i \in 1..Len(s) : ~IsSpace(s[i])}
    IN  IF kept = {} THEN <<>>
        ELSE SubSeq(s, CHOOSE i \in kept : \A j \in kept : i <= j,
                       CHOOSE i \in kept : \A j \in kept : j <= i)

\* The locals of splitStatements before its loop.
ScanStart == [statements |-> <<>>, current |-> <<>>, inQuote |-> FALSE, quoteChar |-> ""]

\* Mutant: a quote of either kind closes the quoted region.
ScanChar_AnyQuoteCloses(st, char) ==
    IF char = "'" \/ char = "\""
    THEN [st EXCEPT !.inQuote   = ~st.inQuote,
                    !.quoteChar = IF ~st.inQuote THEN char ELSE @,
                    !.current   = Append(@, char)]
    ELSE IF char = ";" /\ ~st.inQuote
    THEN LET stmt == TrimSpace(st.current)
         IN  [st EXCEPT !.statements = IF stmt # <<>> THEN Append(@, stmt) ELSE @,
                        !.current    = <<>>]
    ELSE [st EXCEPT !.current = Append(@, char)]

\* One iteration of the loop of splitStatements: the switch on char.
ScanChar(st, char) ==
    IF char = "'" \/ char = "\""
    THEN [st EXCEPT !.inQuote   = IF ~st.inQuote THEN TRUE
                                  ELSE IF char = st.quoteChar THEN FALSE ELSE @,
                    !.quoteChar = IF ~st.inQuote THEN char ELSE @,
                    !.current   = Append(@, char)]
    ELSE IF char = ";" /\ ~st.inQuote
    THEN LET stmt == TrimSpace(st.current)
         IN  [st EXCEPT !.statements = IF stmt # <<>> THEN Append(@, stmt) ELSE @,
                        !.current    = <<>>]
    ELSE [st EXCEPT !.current = Append(@, char)]

\* The loop of splitStatements over s[a..b], in order, from the locals st:
\* the iterations over s[a..mid], then those over s[mid+1..b] from the
\* locals the former leave.  (Halving keeps the evaluation shallow; binding
\* `left` to a set's element has it computed first.)
RECURSIVE Scan(_, _, _, _)
Scan(s, a, b, st) ==
    IF a > b THEN st
    ELSE IF a = b THEN ScanChar(st, s[a])
    ELSE LET mid == (a + b) \div 2
         IN  CHOOSE r \in {Scan(s, mid + 1, b, left) :
                              left \in {Scan(s, a, mid, st)}} : TRUE

\* Mutant: the last statement is added even when it is empty.
splitStatements_KeepsEmpty(s) ==
    LET st   == Scan(s, 1, Len(s), ScanStart)
        stmt == TrimSpace(st.current)
    IN  Append(st.statements, stmt)

\* splitStatements: the fragments of s, cut at each ';' outside quotes.
splitStatements(s) ==
    LET st   == Scan(s, 1, Len(s), ScanStart)
        stmt == TrimSpace(st.current)
    IN  \* Add the last statement if any
        IF stmt # <<>> THEN Append(st.statements, stmt) ELSE st.statements

\* old occurs in s at position i.
MatchesAt(s, i, old) ==
    /\ i + Len(old) - 1 <= Len(s)
    /\ \A k \in 1..Len(old) : s[i + k - 1] = old[k]

\* strings.Index from position i: the first position >= i where old
\* occurs in s, or 0.
IndexFrom(s, i, old) ==
    LET hits == {j \in i..Len(s) : s[j] = old[1] /\ MatchesAt(s, j, old)}
    IN  IF hits = {} THEN 0 ELSE CHOOSE j \in hits : \A k \in hits : j <= k

RECURSIVE replaceFrom(_, _, _, _)
replaceFrom(s, i, old, new) ==
    LET j == IndexFrom(s, i, old)
    IN  IF j = 0 THEN SubSeq(s, i, Len(s))
        ELSE SubSeq(s, i, j - 1) \o new \o replaceFrom(s, j + Len(old), old, new)

\* strings.ReplaceAll for a non-empty old: non-overlapping matches, left to
\* right.
ReplaceAll(s, old, new) == replaceFrom(s, 1, old, new)

\* fmt.Sprintf("{{%s}}", k)
Placeholder(k) == <<"{", "{">> \o k \o <<"}", "}">>

\* dbutil.QueryHelper(tpl, data): for k, v := range data, replace every
\* {{k}} by v.  Go leaves the iteration order of a map unspecified: the
\* result is one of the strings that some order of the keys produces.
RECURSIVE QueryHelperFrom(_, _, _)
QueryHelperFrom(tpl, data, keys) ==
    IF keys = {} THEN {tpl}
    ELSE UNION {QueryHelperFrom(ReplaceAll(tpl, Placeholder(k), data[k]), data,
                                keys \ {k}) : k \in keys}

\* The strings QueryHelper(tpl, data) may return.
QueryHelperResults(tpl, data) == QueryHelperFrom(tpl, data, DOMAIN data)

\* Digits of time.Time.Format's zero-padded fields.
DigitChar == <<"0", "1", "2", "3", "4", "5", "6", "7", "8", "9">>

Pad2(n) == <<DigitChar[(n \div 10) + 1], DigitChar[(n % 10) + 1]>>

Pad4(n) == Pad2(n \div 100) \o Pad2(n % 100)

\* t.Format(time.DateTime), layout "2006-01-02 15:04:05", of the time
\* t = [year, month, day, hour, minute, second].
FormatDateTime(t) ==
    Pad4(t.year) \o <<"-">> \o Pad2(t.month) \o <<"-">> \o Pad2(t.day) \o <<" ">>
    \o Pad2(t.hour) \o <<":">> \o Pad2(t.minute) \o <<":">> \o Pad2(t.second)

\* Mutant: truncate leaves its argument whole.
Truncate_Off(s, n) == s

\* The template function truncate(n).
Truncate(s, n) == IF Len(s) > n THEN SubSeq(s, 1, n) ELSE s

----------------------------------------------------------------------------
(* Username templates.  A template text is opaque to the model; the        *)
(* templates a caller may configure form a closed set.                     *)

\* defaultUserNameTemplate
defaultUserNameTemplate ==
    "{{ printf \"v-%s-%s-%s-%s\" (.DisplayName | truncate 8) (.RoleName | truncate 8) (random 15) (unix_time) | truncate 32 }}"

\* The override of the README's "Username Templates" section.
ReadmeUserNameTemplate ==
    "{{ printf \"myapp-%s-%s\" (.RoleName | truncate 10) (random 8) }}"

\* An override that truncates nothing.
PlainUserNameTemplate ==
    "{{ printf \"%s-%s-%s\" .DisplayName .RoleName (random 15) }}"

\* A text the template parser rejects (unclosed action).
UnparsableUserNameTemplate == "{{ .RoleName "

\* template.NewTemplate(text) returns no error.
\* Mutant: the parser accepts every text.
TemplateParses_AcceptsAll(text) == TRUE

\* template.NewTemplate(template.Template(text)) returns no error.
TemplateParses(text) ==
    text \in {defaultUserNameTemplate, ReadmeUserNameTemplate, PlainUserNameTemplate}

\* usernameProducer.Generate(UsernameMetadata{DisplayName, RoleName}) for a
\* parsed template, with `rnd` the characters the random source yields and
\* `now` the text of unix_time.
Generate(text, displayName, roleName, rnd, now) ==
    IF text = defaultUserNameTemplate
    THEN Truncate(<<"v", "-">> \o Truncate(displayName, 8) \o <<"-">>
                  \o Truncate(roleName, 8) \o <<"-">> \o Truncate(rnd, 15)
                  \o <<"-">> \o now, 32)
    ELSE IF text = PlainUserNameTemplate
    THEN displayName \o <<"-">> \o roleName \o <<"-">> \o Truncate(rnd, 15)
    ELSE <<"m", "y", "a", "p", "p", "-">> \o Truncate(roleName, 10) \o <<"-">>
         \o Truncate(rnd, 8)

Randoms == {RandomA, RandomB}

----------------------------------------------------------------------------
(* Connection strings (connection_producer.go, net/url).                   *)

Letters ==
    {"a", "b", "c", "d", "e", "f", "g", "h", "i", "j", "k", "l", "m", "n", "o", "p", "q", "r", "s", "t", "u", "v", "w", "x", "y", "z"}
    \cup
    {"A", "B", "C", "D", "E", "F", "G", "H", "I", "J", "K", "L", "M", "N", "O", "P", "Q", "R", "S", "T", "U", "V", "W", "X", "Y", "Z"}

Digits == {"0", "1", "2", "3", "4", "5", "6", "7", "8", "9"}

\* RFC 3986 unreserved characters: net/url never escapes them.
Unreserved == Letters \cup Digits \cup {"-", "_", ".", "~"}

\* "%XX" for a character net/url escapes.
PercentCode(ch) ==
    CASE ch = ";" -> <<"%", "3", "B">>
      [] ch = " " -> <<"%", "2", "0">>
      [] ch = "{" -> <<"%", "7", "B">>
      [] ch = "}" -> <<"%", "7", "D">>
      [] ch = "'" -> <<"%", "2", "7">>
      [] ch = "/" -> <<"%", "2", "F">>
      [] ch = "?" -> <<"%", "3", "F">>
      [] ch = "@" -> <<"%", "4", "0">>
      [] ch = ":" -> <<"%", "3", "A">>
      [] ch = "&" -> <<"%", "2", "6">>
      [] ch = "=" -> <<"%", "3", "D">>
      [] ch = "+" -> <<"%", "2", "B">>
      [] ch = "%" -> <<"%", "2", "5">>
      [] ch = "$" -> <<"%", "2", "4">>
      [] ch = "," -> <<"%", "2", "C">>
      [] ch = "\"" -> <<"%", "2", "2">>
      [] OTHER -> <<"%", "?", "?">>

\* url.QueryEscape: a space becomes '+', every reserved character %XX.
RECURSIVE QueryEscape(_)
QueryEscape(s) ==
    IF s = <<>> THEN <<>>
    ELSE (IF Head(s) \in Unreserved THEN <<Head(s)>>
          ELSE IF Head(s) = " " THEN <<"+">>
          ELSE PercentCode(Head(s))) \o QueryEscape(Tail(s))

\* url.PathEscape: a path segment keeps $ & + = : @ and escapes the rest.
RECURSIVE PathEscape(_)
PathEscape(s) ==
    IF s = <<>> THEN <<>>
    ELSE (IF Head(s) \in Unreserved \cup {"$", "&", "+", "=", ":", "@"}
          THEN <<Head(s)>>
          ELSE PercentCode(Head(s))) \o PathEscape(Tail(s))

\* URL.EscapedPath for a whole path: also keeps , / ;
RECURSIVE EscapePath(_)
EscapePath(s) ==
    IF s = <<>> THEN <<>>
    ELSE (IF Head(s) \in Unreserved \cup {"$", "&", "+", "=", ":", "@", ",", "/", ";"}
          THEN <<Head(s)>>
          ELSE PercentCode(Head(s))) \o EscapePath(Tail(s))

\* fmt's %d of a natural number.
RECURSIVE Itoa(_)
Itoa(n) == IF n < 10 THEN <<DigitChar[n + 1]>>
           ELSE Itoa(n \div 10) \o <<DigitChar[(n % 10) + 1]>>

DigitValue(ch) == CHOOSE d \in 0..9 : DigitChar[d + 1] = ch

\* strconv.ParseInt of a decimal text: [ok, value].  A text that is not a
\* decimal number does not parse.
RECURSIVE ParseDigits(_, _)
ParseDigits(s, acc) ==
    IF s = <<>> THEN acc
    ELSE ParseDigits(Tail(s), acc * 10 + DigitValue(Head(s)))

ParseInt(s) ==
    IF s # <<>> /\ \A i \in 1..Len(s) : s[i] \in Digits
    THEN [ok |-> TRUE, value |-> ParseDigits(s, 0)]
    ELSE [ok |-> FALSE, value |-> 0]

\* "true"
trueVal == <<"t", "r", "u", "e">>

\* newConnStringBuilder() with the With... setters Init applies.
ConnStringBuilder(host, port, database, username, password, tls, tlsSkipVerify, debug) ==
    [host |-> host, port |-> port, database |-> database, username |-> username,
     password |-> password, tls |-> tls, tlsSkipVerify |-> tlsSkipVerify,
     debug |-> debug, extraParams |-> <<>>]

\* WithExtraParam: b.extraParams[key] = value
WithExtraParam(b, key, value) ==
    [b EXCEPT !.extraParams = (key :> value) @@ @]

\* ConnStringBuilder.Check returns no error.
Check(b) == b.host # <<>> /\ b.port # 0

\* The url.Values q that BuildConnectionString fills: q.Set for the fields,
\* then for every extra parameter, which replaces a field's value under the
\* same key.  The order in which range visits b.extraParams does not show
\* in q: each key is set once.
QueryValues(b) ==
    b.extraParams
    @@ (IF b.username # <<>> THEN K_username :> b.username ELSE <<>>)
    @@ (IF b.password # <<>> THEN K_password :> b.password ELSE <<>>)
    @@ (IF b.tls THEN <<"s","e","c","u","r","e">> :> trueVal ELSE <<>>)
    @@ (IF b.tls /\ b.tlsSkipVerify
        THEN <<"s","k","i","p","_","v","e","r","i","f","y">> :> trueVal ELSE <<>>)
    @@ (IF b.debug THEN <<"d","e","b","u","g">> :> trueVal ELSE <<>>)

\* The characters of the keys in byte order.
ByteOrder ==
    <<"0", "1", "2", "3", "4", "5", "6", "7", "8", "9", "_",
      "a", "b", "c", "d", "e", "f", "g", "h", "i", "j", "k", "l", "m",
      "n", "o", "p", "q", "r", "s", "t", "u", "v", "w", "x", "y", "z">>

ByteRank(ch) == CHOOSE i \in 1..Len(ByteOrder) : ByteOrder[i] = ch

\* a < b for Go strings.
RECURSIVE StringLess(_, _)
StringLess(a, b) ==
    IF b = <<>> THEN FALSE
    ELSE IF a = <<>> THEN TRUE
    ELSE IF Head(a) = Head(b) THEN StringLess(Tail(a), Tail(b))
    ELSE ByteRank(Head(a)) < ByteRank(Head(b))

\* sort.Strings of a set of keys.
RECURSIVE SortStrings(_)
SortStrings(keys) ==
    IF keys = {} THEN <<>>
    ELSE LET least == CHOOSE k \in keys : \A j \in keys \ {k} : StringLess(k, j)
         IN  <<least>> \o SortStrings(keys \ {least})

\* Every order in which a range over a Go map may visit the keys.
RECURSIVE RangeOrders(_)
RangeOrders(keys) ==
    IF keys = {} THEN {<<>>}
    ELSE UNION {{<<k>> \o rest : rest \in RangeOrders(keys \ {k})} : k \in keys}

\* Mutant: Encode writes the keys in the order the range over the map gives.
EncodeOrders_Unsorted(q) == RangeOrders(DOMAIN q)

\* The orders in which url.Values.Encode may write the keys of q: it
\* collects them by a range over the map and sorts them.
EncodeOrders(q) == {SortStrings(DOMAIN q)}

\* The <<key, value>> pairs of q in the order of the keys given.
PairsIn(q, order) == [i \in 1..Len(order) |-> <<order[i], q[order[i]]>>]

\* url.Values.Encode
RECURSIVE EncodePairs(_)
EncodePairs(pairs) ==
    IF pairs = <<>> THEN <<>>
    ELSE QueryEscape(Head(pairs)[1]) \o <<"=">> \o QueryEscape(Head(pairs)[2])
         \o (IF Len(pairs) > 1 THEN <<"&">> ELSE <<>>) \o EncodePairs(Tail(pairs))

\* url.URL{Scheme, Host, Path, RawQuery}.String() with the query written in
\* the key order given.
URLString(b, order) ==
    LET rawQuery == EncodePairs(PairsIn(QueryValues(b), order))
        path     == EscapePath(b.database)
    IN  <<"c","l","i","c","k","h","o","u","s","e">> \o <<":", "/", "/">>
        \o b.host \o <<":">> \o Itoa(b.port)
        \o (IF path # <<>> /\ Head(path) # "/" THEN <<"/">> ELSE <<>>) \o path
        \o (IF rawQuery # <<>> THEN <<"?">> \o rawQuery ELSE <<>>)

\* The strings ConnStringBuilder.BuildConnectionString may return for b.
BuildConnectionStrings(b) ==
    {URLString(b, order) : order \in EncodeOrders(QueryValues(b))}

\* ConnStringBuilder.BuildConnectionString for a builder without extra
\* parameters, as Init makes it.
BuildConnectionString(b) == CHOOSE s \in BuildConnectionStrings(b) : TRUE

\* The characters net/url writes as %XX.
Escapable ==
    {";", " ", "{", "}", "'", "/", "?", "@", ":", "&", "=", "+", "%", "$", ",", "\""}

\* strings.IndexByte and strings.LastIndexByte, counting from 1; 0 for none.
IndexByte(s, ch) ==
    IF \E i \in 1..Len(s) : s[i] = ch
    THEN CHOOSE i \in 1..Len(s) : s[i] = ch /\ \A j \in 1..(i - 1) : s[j] # ch
    ELSE 0

LastIndexByte(s, ch) ==
    IF \E i \in 1..Len(s) : s[i] = ch
    THEN CHOOSE i \in 1..Len(s) : s[i] = ch /\ \A j \in (i + 1)..Len(s) : s[j] # ch
    ELSE 0

\* strings.Cut(s, ch): the text before and after the first ch.
CutBefore(s, ch) == IF IndexByte(s, ch) = 0 THEN s ELSE SubSeq(s, 1, IndexByte(s, ch) - 1)

CutAfter(s, ch) ==
    IF IndexByte(s, ch) = 0 THEN <<>> ELSE SubSeq(s, IndexByte(s, ch) + 1, Len(s))

\* The %XX at the head of s stands for a character.
EscapeAt(s) ==
    Len(s) >= 3 /\ \E ch \in Escapable : PercentCode(ch) = SubSeq(s, 1, 3)

\* net/url unescape returns no error: every % starts a %XX.
RECURSIVE CanUnescape(_)
CanUnescape(s) ==
    IF s = <<>> THEN TRUE
    ELSE IF Head(s) = "%" THEN EscapeAt(s) /\ CanUnescape(SubSeq(s, 4, Len(s)))
    ELSE CanUnescape(Tail(s))

\* net/url unescape: %XX becomes its character and, in a query component,
\* '+' becomes a space.
RECURSIVE Unescape(_, _)
Unescape(s, query) ==
    IF s = <<>> THEN <<>>
    ELSE IF Head(s) = "%" /\ EscapeAt(s)
    THEN <<CHOOSE ch \in Escapable : PercentCode(ch) = SubSeq(s, 1, 3)>>
         \o Unescape(SubSeq(s, 4, Len(s)), query)
    ELSE IF query /\ Head(s) = "+" THEN <<" ">> \o Unescape(Tail(s), query)
    ELSE <<Head(s)>> \o Unescape(Tail(s), query)

\* url.ParseQuery: the <<key, value>> pairs of a raw query, in its order; a
\* pair that does not unescape is dropped.
RECURSIVE ParseQuery(_)
ParseQuery(raw) ==
    IF raw = <<>> THEN <<>>
    ELSE LET pair == CutBefore(raw, "&")
             key  == CutBefore(pair, "=")
             val  == CutAfter(pair, "=")
         IN  (IF pair = <<>> \/ ~CanUnescape(key) \/ ~CanUnescape(val)
              THEN <<>>
              ELSE << <<Unescape(key, TRUE), Unescape(val, TRUE)>> >>)
             \o ParseQuery(CutAfter(raw, "&"))

\* url.Values.Get: the first value of the key, or "".
Get(q, key) ==
    IF \E i \in 1..Len(q) : q[i][1] = key
    THEN q[CHOOSE i \in 1..Len(q) :
               q[i][1] = key /\ \A j \in 1..(i - 1) : q[j][1] # key][2]
    ELSE <<>>

\* url.Parse of scheme://[userinfo@]host[:port][/path][?query]: the parts
\* NewConnStringBuilderFromConnString reads.
ParseURL(connString) ==
    LET afterScheme == CutAfter(connString, ":")
        rest        == CutBefore(afterScheme, "?")
        rawQuery    == CutAfter(afterScheme, "?")
        hasAuth     == Len(rest) >= 2 /\ SubSeq(rest, 1, 2) = <<"/", "/">>
        afterSlash  == IF hasAuth THEN SubSeq(rest, 3, Len(rest)) ELSE <<>>
        authority   == CutBefore(afterSlash, "/")
        rawPath     == IF hasAuth
                       THEN SubSeq(afterSlash, Len(authority) + 1, Len(afterSlash))
                       ELSE rest
        at          == LastIndexByte(authority, "@")
        userinfo    == IF at = 0 THEN <<>> ELSE SubSeq(authority, 1, at - 1)
        hostport    == SubSeq(authority, at + 1, Len(authority))
        colon       == LastIndexByte(hostport, ":")
        portStr     == IF colon = 0 THEN <<>> ELSE SubSeq(hostport, colon + 1, Len(hostport))
        validPort   == \A i \in 1..Len(portStr) : portStr[i] \in Digits
    IN  [ok       |-> /\ IndexByte(connString, ":") # 0
                      /\ CanUnescape(rawPath) /\ CanUnescape(userinfo)
                      /\ validPort,
         Hostname |-> IF colon = 0 THEN hostport ELSE SubSeq(hostport, 1, colon - 1),
         Port     |-> portStr,
         Path     |-> Unescape(rawPath, FALSE),
         HasUser  |-> at # 0,
         Username |-> Unescape(CutBefore(userinfo, ":"), FALSE),
         Password |-> Unescape(CutAfter(userinfo, ":"), FALSE),
         Query    |-> ParseQuery(rawQuery)]

\* Mutant: a flag is set by any value but the empty one.
FlagSet_AnyValue(q, key) == Get(q, key) # <<>>

\* q.Get(key) == trueVal
FlagSet(q, key) == Get(q, key) = trueVal

\* strings.TrimPrefix(s, "/")
TrimSlash(s) == IF s # <<>> /\ Head(s) = "/" THEN Tail(s) ELSE s

\* NewConnStringBuilderFromConnString: [ok, builder].
NewConnStringBuilderFromConnString(connString) ==
    LET u        == ParseURL(connString)
        q        == u.Query
        userName == IF u.HasUser THEN u.Username ELSE <<>>
        userPass == IF u.HasUser THEN u.Password ELSE <<>>
    IN  [ok |-> u.ok,
         builder |->
            ConnStringBuilder(
                u.Hostname,
                IF u.Port # <<>> THEN ParseInt(u.Port).value ELSE 0,
                TrimSlash(u.Path),
                IF userName = <<>> THEN Get(q, K_username) ELSE userName,
                IF userPass = <<>> THEN Get(q, K_password) ELSE userPass,
                FlagSet(q, <<"s","e","c","u","r","e">>),
                FlagSet(q, <<"s","k","i","p","_","v","e","r","i","f","y">>),
                FlagSet(q, <<"d","e","b","u","g">>))]

----------------------------------------------------------------------------
(* The connection producer's configuration.                                *)

\* The exported fields of clickhouseConnectionProducer, all zero: the value
\* New() constructs.
ZeroProducer ==
    [ConnectionURL |-> <<>>, Host |-> <<>>, Port |-> 0, Username |-> <<>>,
     Password |-> <<>>, Database |-> <<>>, TLS |-> FALSE, TLSSkipVerify |-> FALSE,
     MaxOpenConnections |-> 0, MaxIdleConnections |-> 0,
     MaxConnectionLifetimeS |-> 0, Debug |-> FALSE]

\* mapstructure.WeakDecode of one key: a key the map lacks leaves the field
\* as it was; a text that is no number leaves an int field as it was (and
\* makes the decode report an error).
StrField(conf, k, old) == IF k \in DOMAIN conf THEN conf[k] ELSE old

IntField(conf, k, old) ==
    IF k \in DOMAIN conf /\ ParseInt(conf[k]).ok THEN ParseInt(conf[k]).value ELSE old

IntKeys == {"port", "max_open_connections", "max_idle_connections", "max_connection_lifetime"}

\* mapstructure.WeakDecode(conf, c) returns an error.
DecodeFails(conf) == \E k \in DOMAIN conf \cap IntKeys : ~ParseInt(conf[k]).ok

\* The producer's fields after mapstructure.WeakDecode(conf, c).
WeakDecode(conf, c) ==
    [ConnectionURL          |-> StrField(conf, "connection_url", c.ConnectionURL),
     Host                   |-> StrField(conf, "host", c.Host),
     Port                   |-> IntField(conf, "port", c.Port),
     Username               |-> StrField(conf, "username", c.Username),
     Password               |-> StrField(conf, "password", c.Password),
     Database               |-> StrField(conf, "database", c.Database),
     TLS                    |-> StrField(conf, "tls", c.TLS),
     TLSSkipVerify          |-> StrField(conf, "tls_skip_verify", c.TLSSkipVerify),
     MaxOpenConnections     |-> IntField(conf, "max_open_connections", c.MaxOpenConnections),
     MaxIdleConnections     |-> IntField(conf, "max_idle_connections", c.MaxIdleConnections),
     MaxConnectionLifetimeS |-> IntField(conf, "max_connection_lifetime", c.MaxConnectionLifetimeS),
     Debug                  |-> StrField(conf, "debug", c.Debug)]

DefaultMaxOpenConnections == 4

\* Init, "Set defaults".
WithDefaults(c) ==
    LET a == IF c.MaxOpenConnections = 0
             THEN [c EXCEPT !.MaxOpenConnections = DefaultMaxOpenConnections]
             ELSE c
    IN  IF a.MaxIdleConnections = 0
        THEN [a EXCEPT !.MaxIdleConnections = a.MaxOpenConnections]
        ELSE a

\* The builder Init fills from the producer's fields.
BuilderOf(c) ==
    ConnStringBuilder(c.Host, c.Port, c.Database, c.Username, c.Password,
                      c.TLS, c.TLSSkipVerify, c.Debug)

\* Init, "Build connection URL if not provided", fails builder.Check().
ConfigInvalid(c) == c.ConnectionURL = <<>> /\ ~Check(BuilderOf(c))

\* Init, the connection URL it settles on: built from the fields, or the
\* given one with {{username}} and {{password}} substituted.
WithConnectionURL(c) ==
    IF c.ConnectionURL = <<>>
    THEN [c EXCEPT !.ConnectionURL = BuildConnectionString(BuilderOf(c))]
    ELSE [c EXCEPT !.ConnectionURL =
             ReplaceAll(ReplaceAll(@, Placeholder(K_username), PathEscape(c.Username)),
                        Placeholder(K_password), PathEscape(c.Password))]

\* clickhouseConnectionProducer.SecretValues: the keys of the map.
SecretValues(c) == {c.Password}

----------------------------------------------------------------------------
(* Requests.                                                               *)

\* connection_url with placeholders, as in the README's basic configuration.
ConnectionURLTemplate ==
    <<"c","l","i","c","k","h","o","u","s","e",":","/","/","{","{","u","s","e","r","n","a","m","e","}","}",":","{","{","p","a","s","s","w","o","r","d","}","}","@","h","1",":","9","0","0","0","/","d">>

ConfURL ==
    [connection_url |-> ConnectionURLTemplate, username |-> <<"a","d","m","i","n">>,
     password |-> <<"a",";","1">>]

ConfHostPort ==
    [host |-> <<"h","2">>, port |-> <<"9","4","4","0">>, username |-> <<"a","d","m","i","n">>,
     password |-> <<"p","w","2">>]

\* Neither connection_url nor host and port.
ConfEmpty == [username |-> <<"a","d","m","i","n">>]

\* A port that is no number.
ConfBadPort == [host |-> <<"h","2">>, port |-> <<"x">>]

\* strutil.GetString(req.Config, "username_template")
GetUsernameTemplate(conf) ==
    IF "username_template" \in DOMAIN conf THEN conf.username_template ELSE ""

InitializeRequest(conf, verifyConnection) ==
    [op |-> "Initialize", Config |-> conf, VerifyConnection |-> verifyConnection]

InitNoVerify == InitializeRequest(ConfURL, FALSE)

InitVerify == InitializeRequest(ConfHostPort, TRUE)

InitInvalid == InitializeRequest(ConfEmpty, FALSE)

InitBadPort == InitializeRequest(ConfBadPort, TRUE)

InitReadmeTemplate ==
    InitializeRequest(ConfURL @@ [username_template |-> ReadmeUserNameTemplate], FALSE)

InitBadTemplate ==
    InitializeRequest(ConfURL @@ [username_template |-> UnparsableUserNameTemplate], TRUE)

\* Pool limits given in the configuration.
ConfPool ==
    ConfURL @@ [max_open_connections |-> <<"8">>, max_idle_connections |-> <<"2">>]

\* A connection URL with placeholders, and no username or password key.
ConfURLOnly == [connection_url |-> ConnectionURLTemplate]

InitPool == InitializeRequest(ConfPool, FALSE)

InitURLOnly == InitializeRequest(ConfURLOnly, FALSE)

ExpirationTime ==
    [year |-> 2026, month |-> 1, day |-> 2, hour |-> 15, minute |-> 4, second |-> 5]

NewUserRequest(commands) ==
    [op |-> "NewUser", DisplayName |-> ReqDisplayName, RoleName |-> ReqRoleName,
     Commands |-> commands, Password |-> ReqPassword, Expiration |-> ExpirationTime]

NewUserNoStatements == NewUserRequest(<<>>)

\* One statement of two fragments.
NewUserCreateAndGrant == NewUserRequest(<<CreateAndGrantStatement>>)

\* Two statements of one fragment each.
NewUserTwoStatements == NewUserRequest(<<RotateStatement, ValidUntilStatement>>)

\* req.Password and req.Expiration are pointers: present = FALSE is nil.
NoChangePassword == [present |-> FALSE, NewPassword |-> <<>>, Commands |-> <<>>]

ChangePassword(commands) ==
    [present |-> TRUE, NewPassword |-> ReqPassword, Commands |-> commands]

NoChangeExpiration ==
    [present |-> FALSE, NewExpiration |-> ExpirationTime, Commands |-> <<>>]

ChangeExpiration(commands) ==
    [present |-> TRUE, NewExpiration |-> ExpirationTime, Commands |-> commands]

UpdateUserRequest(changePassword, changeExpiration) ==
    [op |-> "UpdateUser", Username |-> ReqUsername, Password |-> changePassword,
     Expiration |-> changeExpiration]

UpdateNothing == UpdateUserRequest(NoChangePassword, NoChangeExpiration)

UpdatePasswordDefault == UpdateUserRequest(ChangePassword(<<>>), NoChangeExpiration)

\* A password change with its own statement, as a role's
\* rotation_statements supply it.
UpdatePasswordCustom ==
    UpdateUserRequest(ChangePassword(<<RotateStatement>>), NoChangeExpiration)

UpdateBoth ==
    UpdateUserRequest(ChangePassword(<<RotateStatement>>),
                      ChangeExpiration(<<ValidUntilStatement>>))

UpdateExpirationNoStatements ==
    UpdateUserRequest(NoChangePassword, ChangeExpiration(<<>>))

UpdateExpiration ==
    UpdateUserRequest(NoChangePassword, ChangeExpiration(<<ValidUntilStatement>>))

DeleteUserRequest(commands) ==
    [op |-> "DeleteUser", Username |-> ReqUsername, Commands |-> commands]

DeleteDefault == DeleteUserRequest(<<>>)

DeleteCustom == DeleteUserRequest(<<RevokeStatement>>)

CloseRequest == [op |-> "Close"]

\* The host issues, in one behaviour, the requests of one workload.
Workload(w) ==
    CASE w = "lifecycle" ->
            {InitNoVerify, InitVerify, NewUserCreateAndGrant, DeleteDefault, CloseRequest}
      [] w = "statements" ->
            {InitNoVerify, NewUserCreateAndGrant, NewUserTwoStatements, UpdateBoth,
             DeleteCustom}
      [] w = "uninitialized" ->
            {NewUserNoStatements, NewUserCreateAndGrant, UpdateNothing,
             UpdatePasswordDefault, DeleteDefault, CloseRequest}
      [] w = "configuration" ->
            {InitInvalid, InitBadTemplate, InitBadPort, InitVerify, NewUserCreateAndGrant}
      [] w = "update" ->
            {InitNoVerify, UpdateNothing, UpdateBoth, UpdateExpirationNoStatements,
             UpdateExpiration, CloseRequest}
      [] w = "template" ->
            {InitReadmeTemplate, InitNoVerify, NewUserNoStatements, NewUserTwoStatements,
             UpdateNothing}
      [] w = "defaults" ->
            {InitNoVerify, UpdatePasswordDefault, UpdatePasswordCustom, DeleteDefault,
             DeleteCustom}
      [] w = "reconfigure" ->
            {InitNoVerify, InitPool, InitURLOnly, NewUserCreateAndGrant}
      [] w = "cancellation" ->
            {InitNoVerify, NewUserCreateAndGrant, DeleteCustom}
      [] w = "operations" ->
            {InitVerify, NewUserCreateAndGrant, UpdateNothing, UpdateBoth, DeleteDefault,
             CloseRequest}

Workloads ==
    {"lifecycle", "statements", "uninitialized", "configuration", "update", "template",
     "defaults", "reconfigure", "cancellation"}

\* The request mixes in which the host cancels the context of a call.
CancellingWorkloads == {"cancellation", "operations"}

----------------------------------------------------------------------------
(* The state of one plugin instance and of the calls in flight on it.      *)

\* The goroutines of the host that call into the instance.
Calls == {1, 2}

NoCall == 0

\* The number of calls the host makes in one behaviour.
MaxInvocations == 3

VARIABLES
    mutex,            \* clickhouseConnectionProducer.Mutex: its holder, or NoCall
    usernameProducer, \* Clickhouse.usernameProducer: the text of the parsed template
    cfg,              \* the exported fields of clickhouseConnectionProducer
    initialized,      \* clickhouseConnectionProducer.initialized
    db,               \* clickhouseConnectionProducer.db: a handle, or 0 for nil
    handles,          \* every *sql.DB that sql.Open returned, with the id of the
                      \* call that opened it
    calls,            \* per goroutine: the call it runs, its position and locals;
                      \* failed: the fragment whose ExecContext returned an error;
                      \* afterClose: the call was made after a Close had returned
    invocations,      \* the number of calls made so far
    execLog,          \* what the server saw: one entry per db.ExecContext that succeeded
    closeReturned,    \* some Close has returned
    initReturnedOK,   \* some Initialize has returned without error
    lastInit,         \* the Initialize that returned last: whether it succeeded,
                      \* the configuration of the last one that did, whether that
                      \* differs from the one before, and the calls made by then
    initCalled,       \* some call has called clickhouseConnectionProducer.Init
    workload,         \* the name of the workload the host runs in this behaviour
    input,            \* the arguments of the text function under study
    output            \* its result, once it was applied

vars ==
    <<mutex, usernameProducer, cfg, initialized, db, handles, calls, invocations,
      execLog, closeReturned, initReturnedOK, lastInit, initCalled, workload, input,
      output>>

\* The instance's fields.
instance == <<usernameProducer, cfg, initialized, db, handles>>

NoError == [kind |-> "none", fragment |-> <<>>]

Error(kind) == [kind |-> kind, fragment |-> <<>>]

\* fmt.Errorf("failed to execute statement %q: %w", s, err)
ExecutionError(s) == [kind |-> "exec", fragment |-> s]

NoRequest == [op |-> "none"]

\* A goroutine that runs no call.
IdleCall ==
    [id |-> 0, op |-> "none", pc |-> "idle", req |-> NoRequest, phase |-> "",
     username |-> <<>>, statements |-> <<>>, m |-> <<>>, si |-> 0, frags |-> <<>>,
     fi |-> 0, conn |-> 0, err |-> NoError, failed |-> <<>>, afterClose |-> FALSE,
     cancelled |-> FALSE]

\* The first step of each operation.
EntryPC(op) ==
    CASE op = "Initialize" -> "Initialize"
      [] op = "NewUser"    -> "NewUser"
      [] op = "UpdateUser" -> "UpdateUser"
      [] op = "DeleteUser" -> "DeleteUser_Lock"
      [] op = "Close"      -> "Close_Lock"

\* No Initialize has returned yet.
NoInitialize ==
    [ok |-> FALSE, has |-> FALSE, differs |-> FALSE, at |-> 0, Config |-> <<>>]

\* New(): the instance as constructed, and no call made yet.
New ==
    /\ mutex = NoCall
    /\ usernameProducer = defaultUserNameTemplate
    /\ cfg = ZeroProducer
    /\ initialized = FALSE
    /\ db = 0
    /\ handles = <<>>
    /\ calls = [c \in Calls |-> IdleCall]
    /\ invocations = 0
    /\ execLog = <<>>
    /\ closeReturned = FALSE
    /\ initReturnedOK = FALSE
    /\ lastInit = NoInitialize
    /\ initCalled = FALSE

\* No text function is under study.
NoInput == [fn |-> "none"]

NoOutput == [done |-> FALSE]

Init ==
    /\ New
    /\ workload \in Workloads
    /\ input = NoInput
    /\ output = NoOutput

\* The call is about to return err without holding the lock.
Returned(call, err) == [call EXCEPT !.pc = "Return", !.err = err]

\* The call is about to return err while holding the lock: the deferred
\* Unlock runs next.
Returning(call, err) ==
    [call EXCEPT !.pc = "Unlock", !.err = err, !.phase = "", !.statements = <<>>,
                 !.m = <<>>, !.si = 0, !.frags = <<>>, !.fi = 0, !.conn = 0]

\* The host calls an operation on the instance, on the first goroutine
\* that runs no call (idle goroutines are interchangeable).
Invoke(c) ==
    /\ calls[c].pc = "idle"
    /\ \A d \in Calls : d < c => calls[d].pc # "idle"
    /\ invocations < MaxInvocations
    /\ \E req \in Workload(workload) :
          calls' = [calls EXCEPT ![c] =
                       [IdleCall EXCEPT !.id = invocations + 1, !.op = req.op,
                                        !.pc = EntryPC(req.op), !.req = req,
                                        !.afterClose = closeReturned]]
    /\ invocations' = invocations + 1
    /\ UNCHANGED <<mutex, usernameProducer, cfg, initialized, db, handles, execLog,
                   closeReturned, initReturnedOK, lastInit, initCalled, workload, input, output>>

\* The position after c.Lock() returns.
LockNext(pc) ==
    CASE pc = "Init_Lock"       -> "Init"
      [] pc = "NewUser_Lock"    -> "NewUser_Generate"
      [] pc = "UpdateUser_Lock" -> "UpdateUser_Password"
      [] pc = "DeleteUser_Lock" -> "DeleteUser"
      [] pc = "Close_Lock"      -> "Close"

LockPCs == {"Init_Lock", "NewUser_Lock", "UpdateUser_Lock", "DeleteUser_Lock", "Close_Lock"}

\* Mutant: the lock excludes nobody.
CanLock_NoExclusion(c) == TRUE

\* Mutant: DeleteUser goes on without waiting for the lock.
CanLock_DeleteUserNeverWaits(c) == mutex = NoCall \/ calls[c].op = "DeleteUser"

\* sync.Mutex.Lock returns to goroutine c.
CanLock(c) == mutex = NoCall

\* c.Lock()
Lock(c) ==
    /\ calls[c].pc \in LockPCs
    /\ CanLock(c)
    /\ mutex' = c
    /\ calls' = [calls EXCEPT ![c].pc = LockNext(@)]
    /\ UNCHANGED <<usernameProducer, cfg, initialized, db, handles, invocations,
                   execLog, closeReturned, initReturnedOK, lastInit, initCalled,
                   workload, input, output>>

\* The recording of the server restarts when a call returns and no call in
\* flight has a fragment in it.
LogAfterReturn(c) ==
    IF \E i \in 1..Len(execLog), d \in Calls \ {c} : execLog[i].id = calls[d].id
    THEN execLog
    ELSE <<>>

\* What the host knows of its Initialize calls once call c has returned.
LastInitAfter(c) ==
    IF calls[c].op # "Initialize"
    THEN lastInit
    ELSE IF calls[c].err # NoError
    THEN [lastInit EXCEPT !.ok = FALSE, !.at = invocations]
    ELSE [ok |-> TRUE, has |-> TRUE,
          differs |-> lastInit.has /\ lastInit.Config # calls[c].req.Config,
          at |-> invocations, Config |-> calls[c].req.Config]

\* A call that never took the lock returns to the host.
Return(c) ==
    /\ calls[c].pc = "Return"
    /\ calls' = [calls EXCEPT ![c] = IdleCall]
    /\ execLog' = LogAfterReturn(c)
    /\ lastInit' = LastInitAfter(c)
    /\ UNCHANGED <<mutex, usernameProducer, cfg, initialized, db, handles,
                   invocations, closeReturned, initReturnedOK, initCalled,
                   workload, input, output>>

\* Mutant: the call returns without releasing the lock.
Unlock_KeepsLock(c) ==
    /\ calls[c].pc = "Unlock"
    /\ calls' = [calls EXCEPT ![c] = IdleCall]
    /\ execLog' = LogAfterReturn(c)
    /\ closeReturned' = (closeReturned \/ calls[c].op = "Close")
    /\ initReturnedOK' =
          (initReturnedOK \/ (calls[c].op = "Initialize" /\ calls[c].err = NoError))
    /\ lastInit' = LastInitAfter(c)
    /\ UNCHANGED <<mutex, usernameProducer, cfg, initialized, db, handles, invocations,
                   initCalled, workload, input, output>>

\* defer c.Unlock(), and the return to the host.
Unlock(c) ==
    /\ calls[c].pc = "Unlock"
    /\ mutex' = NoCall
    /\ calls' = [calls EXCEPT ![c] = IdleCall]
    /\ execLog' = LogAfterReturn(c)
    /\ closeReturned' = (closeReturned \/ calls[c].op = "Close")
    /\ initReturnedOK' =
          (initReturnedOK \/ (calls[c].op = "Initialize" /\ calls[c].err = NoError))
    /\ lastInit' = LastInitAfter(c)
    /\ UNCHANGED <<usernameProducer, cfg, initialized, db, handles, invocations,
                   initCalled, workload, input, output>>

----------------------------------------------------------------------------
(* clickhouseConnectionProducer.Connection, called with the lock held by   *)
(* Init (phase "verify") and by executeStatementsWithMap.                  *)

\* The locals of executeStatementsWithMap are dropped when it returns.
ClearExec(call) ==
    [call EXCEPT !.phase = "", !.statements = <<>>, !.m = <<>>, !.si = 0,
                 !.frags = <<>>, !.fi = 0, !.conn = 0]

\* Mutant: UpdateUser goes on to the expiration change whatever
\* updateUserPassword returned.
ExecReturned_IgnoresPasswordError(call, err) ==
    IF call.phase = "password"
    THEN [ClearExec(call) EXCEPT !.pc = "UpdateUser_Expiration"]
    ELSE Returning(call, err)

\* executeStatementsWithMap returns err to the operation that called it.
ExecReturned(call, err) ==
    IF call.phase = "password" /\ err = NoError
    THEN [ClearExec(call) EXCEPT !.pc = "UpdateUser_Expiration"]
    ELSE Returning(call, err)

\* Connection returns the handle h.
ConnectionReturned(call, h) ==
    IF call.phase = "verify"
    THEN [call EXCEPT !.pc = "Init_Ping", !.conn = h]
    ELSE [call EXCEPT !.pc = "exec_stmt", !.conn = h, !.si = 1]

\* Connection returns an error.
ConnectionFailed(call, err) ==
    IF call.phase = "verify" THEN Returning(call, err) ELSE ExecReturned(call, err)

\* Mutant: Connection does not test the initialized flag.
NotInitialized_Missing == FALSE

\* Connection's first test: "connection producer not initialized".
NotInitialized == ~initialized

\* Connection: the initialized test and the choice between the cached
\* handle and a fresh one.
Connection(c) ==
    /\ calls[c].pc = "Connection"
    /\ calls' = [calls EXCEPT ![c] =
                    IF NotInitialized THEN ConnectionFailed(@, Error("not_initialized"))
                    ELSE IF db # 0 THEN [@ EXCEPT !.pc = "Connection_Ping"]
                    ELSE [@ EXCEPT !.pc = "Connection_Open"]]
    /\ UNCHANGED <<mutex, usernameProducer, cfg, initialized, db, handles,
                   invocations, execLog, closeReturned, initReturnedOK, lastInit, initCalled,
                   workload, input, output>>

\* c.db.PingContext(ctx) on the cached handle: alive, or stale.
Connection_Ping(c) ==
    /\ calls[c].pc = "Connection_Ping"
    /\ \E alive \in BOOLEAN :
          calls' = [calls EXCEPT ![c] =
                       IF alive /\ ~calls[c].cancelled THEN ConnectionReturned(@, db)
                       ELSE [@ EXCEPT !.pc = "Connection_Close"]]
    /\ UNCHANGED <<mutex, usernameProducer, cfg, initialized, db, handles,
                   invocations, execLog, closeReturned, initReturnedOK, lastInit, initCalled,
                   workload, input, output>>

\* Mutant: the stale handle is neither closed nor forgotten.
Connection_Close_KeepsStale(c) ==
    /\ calls[c].pc = "Connection_Close"
    /\ calls' = [calls EXCEPT ![c].pc = "Connection_Open"]
    /\ UNCHANGED <<mutex, usernameProducer, cfg, initialized, db, handles, invocations,
                   execLog, closeReturned, initReturnedOK, lastInit, initCalled,
                   workload, input, output>>

\* "Connection is stale, close it": c.db.Close(); c.db = nil.
Connection_Close(c) ==
    /\ calls[c].pc = "Connection_Close"
    /\ handles' = [handles EXCEPT ![db].open = FALSE]
    /\ db' = 0
    /\ calls' = [calls EXCEPT ![c].pc = "Connection_Open"]
    /\ UNCHANGED <<mutex, usernameProducer, cfg, initialized, invocations, execLog,
                   closeReturned, initReturnedOK, lastInit, initCalled, workload, input, output>>

\* The *sql.DB that sql.Open("clickhouse", c.ConnectionURL) returns, with
\* the pool limits set on it.
OpenedHandle(by) ==
    [open |-> TRUE, url |-> cfg.ConnectionURL,
     maxOpen |-> cfg.MaxOpenConnections, maxIdle |-> cfg.MaxIdleConnections,
     by |-> by]

\* sql.Open and the pool limits; c.db = db.
Connection_Open(c) ==
    /\ calls[c].pc = "Connection_Open"
    /\ \/ /\ handles' = Append(handles, OpenedHandle(calls[c].id))
          /\ db' = Len(handles) + 1
          /\ calls' = [calls EXCEPT ![c] = ConnectionReturned(@, Len(handles) + 1)]
       \/ /\ calls' = [calls EXCEPT ![c] = ConnectionFailed(@, Error("open"))]
          /\ UNCHANGED <<db, handles>>
    /\ UNCHANGED <<mutex, usernameProducer, cfg, initialized, invocations, execLog,
                   closeReturned, initReturnedOK, lastInit, initCalled, workload, input, output>>

----------------------------------------------------------------------------
(* Clickhouse.Initialize and clickhouseConnectionProducer.Init.            *)

\* The template text Initialize parses: the configured one, or the default.
RequestedTemplate(req) ==
    IF GetUsernameTemplate(req.Config) = ""
    THEN defaultUserNameTemplate
    ELSE GetUsernameTemplate(req.Config)

\* Initialize up to template.NewTemplate: no lock is held.
Initialize(c) ==
    /\ calls[c].pc = "Initialize"
    /\ calls' = [calls EXCEPT ![c] =
                    IF TemplateParses(RequestedTemplate(@.req))
                    THEN [@ EXCEPT !.pc = "Initialize_SetTemplate"]
                    ELSE Returned(@, Error("template_parse"))]
    /\ UNCHANGED <<mutex, usernameProducer, cfg, initialized, db, handles,
                   invocations, execLog, closeReturned, initReturnedOK, lastInit, initCalled,
                   workload, input, output>>

\* c.usernameProducer = up, then the call of Init: no lock is held.
Initialize_SetTemplate(c) ==
    /\ calls[c].pc = "Initialize_SetTemplate"
    /\ usernameProducer' = RequestedTemplate(calls[c].req)
    /\ calls' = [calls EXCEPT ![c].pc = "Init_Lock"]
    /\ initCalled' = TRUE
    /\ UNCHANGED <<mutex, cfg, initialized, db, handles, invocations, execLog,
                   closeReturned, initReturnedOK, lastInit, workload, input, output>>

\* Init with the lock held: decode, defaults, connection URL, initialized.
ProducerInit(c) ==
    /\ calls[c].pc = "Init"
    /\ LET conf     == calls[c].req.Config
           decoded  == WeakDecode(conf, cfg)
           defaults == WithDefaults(decoded)
       IN  IF DecodeFails(conf)
           THEN /\ cfg' = decoded
                /\ calls' = [calls EXCEPT ![c] = Returning(@, Error("decode"))]
                /\ UNCHANGED initialized
           ELSE IF ConfigInvalid(defaults)
           THEN /\ cfg' = defaults
                /\ calls' = [calls EXCEPT ![c] = Returning(@, Error("config"))]
                /\ UNCHANGED initialized
           ELSE /\ cfg' = WithConnectionURL(defaults)
                /\ initialized' = TRUE
                /\ calls' = [calls EXCEPT ![c] =
                                IF @.req.VerifyConnection
                                THEN [@ EXCEPT !.pc = "Connection", !.phase = "verify"]
                                ELSE Returning(@, NoError)]
    /\ UNCHANGED <<mutex, usernameProducer, db, handles, invocations, execLog,
                   closeReturned, initReturnedOK, lastInit, initCalled, workload, input, output>>

\* Init, verifyConnection: db.PingContext(ctx) on the handle Connection gave.
Init_Ping(c) ==
    /\ calls[c].pc = "Init_Ping"
    /\ \E alive \in BOOLEAN :
          calls' = [calls EXCEPT ![c] =
                       Returning(@, IF alive /\ ~calls[c].cancelled
                                    THEN NoError ELSE Error("ping"))]
    /\ UNCHANGED <<mutex, usernameProducer, cfg, initialized, db, handles,
                   invocations, execLog, closeReturned, initReturnedOK, lastInit, initCalled,
                   workload, input, output>>

----------------------------------------------------------------------------
(* Clickhouse.executeStatementsWithMap, after Connection returned a handle. *)

\* The head of the loop over the statements: the function returns nil after
\* the last one; otherwise the statement is substituted and split.
exec_stmt(c) ==
    /\ calls[c].pc = "exec_stmt"
    /\ IF calls[c].si > Len(calls[c].statements)
       THEN calls' = [calls EXCEPT ![c] = ExecReturned(@, NoError)]
       ELSE \E parsedStatement \in
                   QueryHelperResults(calls[c].statements[calls[c].si], calls[c].m) :
               calls' = [calls EXCEPT ![c] =
                            [@ EXCEPT !.pc = "exec_frag",
                                      !.frags = splitStatements(parsedStatement),
                                      !.fi = 1]]
    /\ UNCHANGED <<mutex, usernameProducer, cfg, initialized, db, handles,
                   invocations, execLog, closeReturned, initReturnedOK, lastInit, initCalled,
                   workload, input, output>>

\* Mutant: the loop skips the fragment after one that succeeded.
NextFragment_Skip(call) == [call EXCEPT !.fi = @ + 2]

\* The call's state after db.ExecContext(ctx, s) returned no error: the
\* loop goes on with the next fragment.
NextFragment(call) == [call EXCEPT !.fi = @ + 1]

\* Mutant: the error of db.ExecContext is dropped and the loop goes on.
ExecFailed_Ignored(call, s) == [call EXCEPT !.fi = @ + 1]

\* The call's state after db.ExecContext(ctx, s) returned an error.
ExecFailed(call, s) == ExecReturned(call, ExecutionError(s))

\* db.ExecContext(ctx, s) is the next step of the call: a fragment is in
\* flight.
FragmentInFlight(call) ==
    /\ call.pc = "exec_frag"
    /\ call.fi <= Len(call.frags)
    /\ TrimSpace(call.frags[call.fi]) # <<>>

\* The host cancels the ctx of the call while a fragment is in flight.
Cancel(c) ==
    /\ workload \in CancellingWorkloads
    /\ FragmentInFlight(calls[c])
    /\ ~calls[c].cancelled
    /\ calls' = [calls EXCEPT ![c].cancelled = TRUE]
    /\ UNCHANGED <<mutex, usernameProducer, cfg, initialized, db, handles,
                   invocations, execLog, closeReturned, initReturnedOK, lastInit, initCalled,
                   workload, input, output>>

\* Mutant: the network calls do not look at the context.
ContextDone_Ignored(call) == FALSE

\* ctx.Err() != nil: a network call given this ctx returns its error.
ContextDone(call) == call.cancelled

\* The loop over the fragments of one statement: an empty fragment is
\* skipped; db.ExecContext runs the fragment, and its error ends the call.
exec_frag(c) ==
    /\ calls[c].pc = "exec_frag"
    /\ LET call == calls[c]
           s    == TrimSpace(call.frags[call.fi])
       IN  IF call.fi > Len(call.frags)
           THEN /\ calls' = [calls EXCEPT ![c] =
                                [@ EXCEPT !.pc = "exec_stmt", !.si = @ + 1,
                                          !.frags = <<>>, !.fi = 0]]
                /\ UNCHANGED execLog
           ELSE IF s = <<>>
           THEN /\ calls' = [calls EXCEPT ![c].fi = @ + 1]
                /\ UNCHANGED execLog
           ELSE \/ /\ ~ContextDone(call)
                   /\ execLog' = Append(execLog,
                                        [id |-> call.id, fragment |-> s,
                                         handle |-> call.conn])
                   /\ calls' = [calls EXCEPT ![c] = NextFragment(@)]
                \/ /\ calls' = [calls EXCEPT ![c] = [ExecFailed(@, s) EXCEPT !.failed = s]]
                   /\ UNCHANGED execLog
    /\ UNCHANGED <<mutex, usernameProducer, cfg, initialized, db, handles,
                   invocations, closeReturned, initReturnedOK, lastInit, initCalled,
                   workload, input, output>>

\* The call enters executeStatementsWithMap(ctx, statements, m).
ExecuteStatementsWithMap(call, phase, statements, m) ==
    [call EXCEPT !.pc = "Connection", !.phase = phase, !.statements = statements,
                 !.m = m]

----------------------------------------------------------------------------
(* Clickhouse.NewUser                                                      *)

\* Mutant: the test for an empty statement list is missing.
NoCreationStatements_Missing(req) == FALSE

\* len(req.Statements.Commands) == 0
NoCreationStatements(req) == Len(req.Commands) = 0

\* NewUser before c.Lock().
NewUser(c) ==
    /\ calls[c].pc = "NewUser"
    /\ calls' = [calls EXCEPT ![c] =
                    IF NoCreationStatements(@.req)
                    THEN Returned(@, Error("no_creation_statements"))
                    ELSE [@ EXCEPT !.pc = "NewUser_Lock"]]
    /\ UNCHANGED <<mutex, usernameProducer, cfg, initialized, db, handles,
                   invocations, execLog, closeReturned, initReturnedOK, lastInit, initCalled,
                   workload, input, output>>

\* Mutant: {{username}} stands for the display name of the request.
NewUserMap_AliasDiffers(username, req) ==
    (K_name :> username) @@ (K_username :> req.DisplayName)
    @@ (K_password :> req.Password)
    @@ (K_expiration :> FormatDateTime(req.Expiration))

\* The placeholder map NewUser builds.
NewUserMap(username, req) ==
    (K_name :> username) @@ (K_username :> username)
    @@ (K_password :> req.Password)
    @@ (K_expiration :> FormatDateTime(req.Expiration))

\* Mutant: the response carries the username whatever the error.
NewUserResponse_KeepsUsername(call) == [Username |-> call.username]

\* The dbplugin.NewUserResponse a NewUser call returns with its error.
NewUserResponse(call) ==
    IF call.err = NoError THEN [Username |-> call.username] ELSE [Username |-> <<>>]

\* NewUser with the lock held: the username, then executeStatementsWithMap.
NewUser_Generate(c) ==
    /\ calls[c].pc = "NewUser_Generate"
    /\ \E rnd \in Randoms :
          LET username == Generate(usernameProducer, calls[c].req.DisplayName,
                                   calls[c].req.RoleName, rnd, UnixTimeNow)
          IN  calls' = [calls EXCEPT ![c] =
                           ExecuteStatementsWithMap(
                               [@ EXCEPT !.username = username], "create",
                               @.req.Commands, NewUserMap(username, @.req))]
    /\ UNCHANGED <<mutex, usernameProducer, cfg, initialized, db, handles,
                   invocations, execLog, closeReturned, initReturnedOK, lastInit, initCalled,
                   workload, input, output>>

----------------------------------------------------------------------------
(* Clickhouse.UpdateUser                                                   *)

\* Mutant: the test for a request without changes is missing.
NoChangesRequested_Missing(req) == FALSE

\* req.Password == nil && req.Expiration == nil
NoChangesRequested(req) == ~req.Password.present /\ ~req.Expiration.present

\* UpdateUser before c.Lock().
UpdateUser(c) ==
    /\ calls[c].pc = "UpdateUser"
    /\ calls' = [calls EXCEPT ![c] =
                    IF NoChangesRequested(@.req)
                    THEN Returned(@, Error("no_changes"))
                    ELSE [@ EXCEPT !.pc = "UpdateUser_Lock"]]
    /\ UNCHANGED <<mutex, usernameProducer, cfg, initialized, db, handles,
                   invocations, execLog, closeReturned, initReturnedOK, lastInit, initCalled,
                   workload, input, output>>

\* Mutant: updateUserPassword has no default statement.
PasswordStatements_NoDefault(changePassword) == changePassword.Commands

\* updateUserPassword: the statements it executes.
PasswordStatements(changePassword) ==
    IF Len(changePassword.Commands) = 0
    THEN <<defaultRotateCredentialsStatement>>
    ELSE changePassword.Commands

\* updateUserPassword: its placeholder map.
PasswordMap(username, changePassword) ==
    (K_name :> username) @@ (K_username :> username)
    @@ (K_password :> changePassword.NewPassword)

\* UpdateUser: if req.Password != nil, updateUserPassword.
UpdateUser_Password(c) ==
    /\ calls[c].pc = "UpdateUser_Password"
    /\ calls' = [calls EXCEPT ![c] =
                    IF @.req.Password.present
                    THEN ExecuteStatementsWithMap(
                             @, "password", PasswordStatements(@.req.Password),
                             PasswordMap(@.req.Username, @.req.Password))
                    ELSE [@ EXCEPT !.pc = "UpdateUser_Expiration"]]
    /\ UNCHANGED <<mutex, usernameProducer, cfg, initialized, db, handles,
                   invocations, execLog, closeReturned, initReturnedOK, lastInit, initCalled,
                   workload, input, output>>

\* updateUserExpiration: its placeholder map.
ExpirationMap(username, changeExpiration) ==
    (K_name :> username) @@ (K_username :> username)
    @@ (K_expiration :> FormatDateTime(changeExpiration.NewExpiration))

\* Mutant: updateUserExpiration executes its statement list even when empty.
NoExpirationStatements_Missing(changeExpiration) == FALSE

\* updateUserExpiration: len(statements) == 0, "nothing to do".
NoExpirationStatements(changeExpiration) == Len(changeExpiration.Commands) = 0

\* UpdateUser: if req.Expiration != nil, updateUserExpiration, which does
\* nothing without statements; then the return.
UpdateUser_Expiration(c) ==
    /\ calls[c].pc = "UpdateUser_Expiration"
    /\ calls' = [calls EXCEPT ![c] =
                    IF @.req.Expiration.present /\ ~NoExpirationStatements(@.req.Expiration)
                    THEN ExecuteStatementsWithMap(
                             @, "expiration", @.req.Expiration.Commands,
                             ExpirationMap(@.req.Username, @.req.Expiration))
                    ELSE Returning(@, NoError)]
    /\ UNCHANGED <<mutex, usernameProducer, cfg, initialized, db, handles,
                   invocations, execLog, closeReturned, initReturnedOK, lastInit, initCalled,
                   workload, input, output>>

----------------------------------------------------------------------------
(* Clickhouse.DeleteUser and Clickhouse.Close                              *)

\* Mutant: DeleteUser has no default statement.
RevocationStatements_NoDefault(req) == req.Commands

\* DeleteUser: the statements it executes.
RevocationStatements(req) ==
    IF Len(req.Commands) = 0 THEN <<defaultRevocationStatement>> ELSE req.Commands

\* DeleteUser: its placeholder map.
DeleteUserMap(req) == (K_name :> req.Username) @@ (K_username :> req.Username)

\* DeleteUser with the lock held.
DeleteUser(c) ==
    /\ calls[c].pc = "DeleteUser"
    /\ calls' = [calls EXCEPT ![c] =
                    ExecuteStatementsWithMap(@, "revoke", RevocationStatements(@.req),
                                             DeleteUserMap(@.req))]
    /\ UNCHANGED <<mutex, usernameProducer, cfg, initialized, db, handles,
                   invocations, execLog, closeReturned, initReturnedOK, lastInit, initCalled,
                   workload, input, output>>

\* Mutant: a Close that finds no cached handle reports an error.
Close_NotIdempotent(c) ==
    /\ calls[c].pc = "Close"
    /\ IF db # 0
       THEN /\ handles' = [handles EXCEPT ![db].open = FALSE]
            /\ db' = 0
            /\ \E failed \in BOOLEAN :
                  calls' = [calls EXCEPT ![c] =
                               Returning(@, IF failed THEN Error("close") ELSE NoError)]
       ELSE /\ calls' = [calls EXCEPT ![c] = Returning(@, Error("close"))]
            /\ UNCHANGED <<db, handles>>
    /\ UNCHANGED <<mutex, usernameProducer, cfg, initialized, invocations, execLog,
                   closeReturned, initReturnedOK, lastInit, initCalled, workload, input, output>>

\* Mutant: Close also marks the producer as not initialized.
Close_ResetsInitialized(c) ==
    /\ calls[c].pc = "Close"
    /\ initialized' = FALSE
    /\ IF db # 0
       THEN /\ handles' = [handles EXCEPT ![db].open = FALSE]
            /\ db' = 0
       ELSE UNCHANGED <<db, handles>>
    /\ calls' = [calls EXCEPT ![c] = Returning(@, NoError)]
    /\ UNCHANGED <<mutex, usernameProducer, cfg, invocations, execLog,
                   closeReturned, initReturnedOK, lastInit, initCalled, workload, input, output>>

\* clickhouseConnectionProducer.Close with the lock held: the cached handle
\* is closed and forgotten; db.Close's error is returned.
Close(c) ==
    /\ calls[c].pc = "Close"
    /\ IF db # 0
       THEN /\ handles' = [handles EXCEPT ![db].open = FALSE]
            /\ db' = 0
            /\ \E failed \in BOOLEAN :
                  calls' = [calls EXCEPT ![c] =
                               Returning(@, IF failed THEN Error("close") ELSE NoError)]
       ELSE /\ calls' = [calls EXCEPT ![c] = Returning(@, NoError)]
            /\ UNCHANGED <<db, handles>>
    /\ UNCHANGED <<mutex, usernameProducer, cfg, initialized, invocations, execLog,
                   closeReturned, initReturnedOK, lastInit, initCalled, workload, input, output>>

----------------------------------------------------------------------------

\* A step of the call that goroutine c runs.
\* The steps of goroutine c that build or take apart a text.
TextStep(c) ==
        \/ ProducerInit(c)
        \/ exec_stmt(c)
        \/ exec_frag(c)

\* Goroutine c is at a step of TextStep; each of them can be taken wherever
\* the call is at it.
AtTextStep(c) == calls[c].pc \in {"Init", "exec_stmt", "exec_frag"}

\* The other steps of goroutine c.
PlainStep(c) ==
        \/ Lock(c)
        \/ Unlock(c)
        \/ Return(c)
        \/ Initialize(c)
        \/ Initialize_SetTemplate(c)
        \/ Init_Ping(c)
        \/ Connection(c)
        \/ Connection_Ping(c)
        \/ Connection_Close(c)
        \/ Connection_Open(c)
        \/ NewUser(c)
        \/ NewUser_Generate(c)
        \/ UpdateUser(c)
        \/ UpdateUser_Password(c)
        \/ UpdateUser_Expiration(c)
        \/ DeleteUser(c)
        \/ Close(c)

Step(c) == PlainStep(c) \/ TextStep(c)

Next ==
    \E c \in Calls :
        \/ Invoke(c)
        \/ Cancel(c)
        \/ Step(c)

Spec == Init /\ [][Next]_vars

\* The host makes calls of every operation, and cancels some.
LiveInit ==
    /\ New
    /\ workload = "operations"
    /\ input = NoInput
    /\ output = NoOutput

\* Weak fairness of TextStep(c), with AtTextStep(c) written for
\* ENABLED <<TextStep(c)>>_vars.
TextStepFair(c) == []<>(~AtTextStep(c)) \/ []<><<TextStep(c)>>_vars

\* The scheduler runs every goroutine that can take a step, each network
\* call returns, and sync.Mutex hands the lock to a goroutine that waits.
\* The host need not call, nor cancel.
FairSpec ==
    /\ LiveInit
    /\ [][Next]_vars
    /\ \A c \in Calls : WF_vars(PlainStep(c)) /\ TextStepFair(c)

----------------------------------------------------------------------------
(* The text functions on their own: an input is drawn, the function is     *)
(* applied to it once.                                                     *)

\* The characters of the inputs of splitStatements.
Alphabet == {"a", ";", "'", "\"", " "}

\* The length of the longest input of splitStatements.
MaxLen == 4

\* The strings over `chars` of the lengths lo..hi.
Strings(chars, lo, hi) == UNION {[1..n -> chars] : n \in lo..hi}

\* The characters of a substituted username or password.
ValueAlphabet == {"a", ";", "'"}

\* The length of the longest substituted value.
MaxValueLen == 2

Values == Strings(ValueAlphabet, 1, MaxValueLen)

\* Statements whose placeholders are written inside single quotes.
QuotedTemplates == {RotateStatement, CreateAndGrantStatement}

\* A call of splitStatements(s).
SplitInput(s) == [fn |-> "splitStatements", s |-> s]

\* One iteration of the statement loop of executeStatementsWithMap, for a
\* password change of `username` to `password`.
SubstituteInput(statement, username, password) ==
    [fn |-> "QueryHelper", statement |-> statement, username |-> username,
     password |-> password]

\* Values that are themselves the text of a placeholder.
NestedValues == {Placeholder(K_name), Placeholder(K_username)}

\* The length of the longest display name and role name.
MaxNameLen == 9

\* The display names and role names: the first n letters of one text.
Names ==
    {SubSeq(<<"t","o","k","e","n","r","o","l","e","n","a","m","e","s">>, 1, n) :
        n \in 0..MaxNameLen}

\* The username templates Initialize accepts.
AcceptedTemplates ==
    {defaultUserNameTemplate, ReadmeUserNameTemplate, PlainUserNameTemplate}

\* A call of usernameProducer.Generate with the template `text` installed.
GenerateInput(text, displayName, roleName, rnd) ==
    [fn |-> "Generate", template |-> text, displayName |-> displayName,
     roleName |-> roleName, rnd |-> rnd]

\* The builders under study: With... setters applied to a new builder.
Builders ==
    {ConnStringBuilder(<<"h", "1">>, port, database, username, password, tls, skip, debug) :
        port \in {0, 9000},
        database \in {<<>>, <<"d">>, <<"m", "y", " ", "d", "b">>},
        username \in {<<>>, <<"a", "d", "m", "i", "n">>},
        password \in {<<>>, <<"a", ";", "1">>},
        tls \in BOOLEAN, skip \in BOOLEAN, debug \in BOOLEAN}

\* A call of BuildConnectionString whose result is parsed again.
BuildInput(b) == [fn |-> "BuildConnectionString", builder |-> b]

\* Stands for a parameter the query does not have (no text is equal to it).
Absent == <<"absent">>

\* The values a flag parameter of a connection string is given.
FlagValues ==
    {Absent, trueVal, <<"T","R","U","E">>, <<"1">>, <<"y","e","s">>, <<>>}

\* key=value, or nothing for an absent parameter.
FlagPair(key, value) ==
    IF value = Absent THEN <<>> ELSE << <<key, value>> >>

\* A connection string with the three flag parameters given as told.
FlagsConnString(secure, skipVerify, debug) ==
    LET pairs == FlagPair(<<"s","e","c","u","r","e">>, secure)
                 \o FlagPair(<<"s","k","i","p","_","v","e","r","i","f","y">>, skipVerify)
                 \o FlagPair(<<"d","e","b","u","g">>, debug)
    IN  <<"c","l","i","c","k","h","o","u","s","e",":","/","/","h","1",":","9","0","0","0","/","d">>
        \o (IF pairs = <<>> THEN <<>> ELSE <<"?">> \o EncodePairs(pairs))

\* A call of NewConnStringBuilderFromConnString on such a string.
ParseInput(secure, skipVerify, debug) ==
    [fn |-> "NewConnStringBuilderFromConnString",
     connString |-> FlagsConnString(secure, skipVerify, debug),
     secure |-> secure, skipVerify |-> skipVerify, debug |-> debug]

\* The extra parameters given to WithExtraParam.
ExtraPairs ==
    { << <<"d","i","a","l","_","t","i","m","e","o","u","t">>, <<"1","0","s">> >>,
      << <<"r","e","a","d","_","t","i","m","e","o","u","t">>, <<"3","0","s">> >>,
      << <<"c","o","m","p","r","e","s","s">>, trueVal >> }

\* The number of WithExtraParam calls on one builder.
MaxExtraParams == 2

\* The WithExtraParam calls on one builder, in their order: each key once.
ExtraAdds ==
    {adds \in UNION {[1..n -> ExtraPairs] : n \in 0..MaxExtraParams} :
        \A i, j \in 1..Len(adds) : i # j => adds[i][1] # adds[j][1]}

\* The builders the extra parameters are added to.
ExtraBases ==
    {ConnStringBuilder(<<"h", "1">>, 9000, <<>>, <<>>, <<>>, FALSE, FALSE, FALSE),
     ConnStringBuilder(<<"h", "1">>, 9000, <<"d">>, <<"a", "d", "m", "i", "n">>,
                       <<"a", ";", "1">>, TRUE, TRUE, TRUE)}

\* b.WithExtraParam(...) for each of adds in turn.
RECURSIVE WithExtraParams(_, _)
WithExtraParams(b, adds) ==
    IF adds = <<>> THEN b
    ELSE WithExtraParams(WithExtraParam(b, Head(adds)[1], Head(adds)[2]), Tail(adds))

\* A call of BuildConnectionString after the WithExtraParam calls adds.
ExtraInput(b, adds) == [fn |-> "WithExtraParam", builder |-> b, adds |-> adds]

Inputs ==
    {SplitInput(s) : s \in Strings(Alphabet, 0, MaxLen)}
    \cup {SubstituteInput(t, ReqUsername, v) : t \in QuotedTemplates, v \in Values}
    \cup {SubstituteInput(t, v, ReqPassword) : t \in QuotedTemplates, v \in Values}
    \cup {SubstituteInput(t, ReqUsername, v) : t \in QuotedTemplates, v \in NestedValues}
    \cup {GenerateInput(t, d, r, rnd) :
             t \in AcceptedTemplates, d \in Names, r \in Names, rnd \in Randoms}
    \cup {BuildInput(b) : b \in Builders}
    \cup {ParseInput(s, k, d) : s \in FlagValues, k \in FlagValues, d \in FlagValues}
    \cup {ExtraInput(b, adds) : b \in ExtraBases, adds \in ExtraAdds}

PureInit ==
    /\ New
    /\ workload = "none"
    /\ input \in Inputs
    /\ output = NoOutput

\* The placeholder map of updateUserPassword for the input.
SubstituteMap(in) ==
    PasswordMap(in.username, [present |-> TRUE, NewPassword |-> in.password,
                              Commands |-> <<in.statement>>])

\* splitStatements(s)
ApplySplitStatements ==
    /\ input.fn = "splitStatements"
    /\ ~output.done
    /\ output' = [done |-> TRUE, fragments |-> splitStatements(input.s)]
    /\ UNCHANGED <<mutex, usernameProducer, cfg, initialized, db, handles, calls,
                   invocations, execLog, closeReturned, initReturnedOK, lastInit, initCalled,
                   workload, input>>

\* splitStatements(dbutil.QueryHelper(statement, m))
SubstituteAndSplit ==
    /\ input.fn = "QueryHelper"
    /\ ~output.done
    /\ \E parsedStatement \in QueryHelperResults(input.statement, SubstituteMap(input)) :
          output' = [done |-> TRUE, fragments |-> splitStatements(parsedStatement)]
    /\ UNCHANGED <<mutex, usernameProducer, cfg, initialized, db, handles, calls,
                   invocations, execLog, closeReturned, initReturnedOK, lastInit, initCalled,
                   workload, input>>

\* c.usernameProducer.Generate(UsernameMetadata{DisplayName, RoleName})
ApplyGenerate ==
    /\ input.fn = "Generate"
    /\ ~output.done
    /\ output' = [done |-> TRUE,
                  username |-> Generate(input.template, input.displayName,
                                        input.roleName, input.rnd, UnixTimeNow)]
    /\ UNCHANGED <<mutex, usernameProducer, cfg, initialized, db, handles, calls,
                   invocations, execLog, closeReturned, initReturnedOK, lastInit, initCalled,
                   workload, input>>

\* NewConnStringBuilderFromConnString(b.BuildConnectionString())
BuildAndParse ==
    /\ input.fn = "BuildConnectionString"
    /\ ~output.done
    /\ LET connString == BuildConnectionString(input.builder)
       IN  output' = [done |-> TRUE, connString |-> connString,
                      parsed |-> NewConnStringBuilderFromConnString(connString)]
    /\ UNCHANGED <<mutex, usernameProducer, cfg, initialized, db, handles, calls,
                   invocations, execLog, closeReturned, initReturnedOK, lastInit, initCalled,
                   workload, input>>

\* NewConnStringBuilderFromConnString(connString)
ApplyParse ==
    /\ input.fn = "NewConnStringBuilderFromConnString"
    /\ ~output.done
    /\ output' = [done |-> TRUE,
                  parsed |-> NewConnStringBuilderFromConnString(input.connString)]
    /\ UNCHANGED <<mutex, usernameProducer, cfg, initialized, db, handles, calls,
                   invocations, execLog, closeReturned, initReturnedOK, lastInit, initCalled,
                   workload, input>>

\* b.WithExtraParam(...)....BuildConnectionString()
BuildWithExtraParams ==
    /\ input.fn = "WithExtraParam"
    /\ ~output.done
    /\ \E s \in BuildConnectionStrings(WithExtraParams(input.builder, input.adds)) :
          output' = [done |-> TRUE, connString |-> s]
    /\ UNCHANGED <<mutex, usernameProducer, cfg, initialized, db, handles, calls,
                   invocations, execLog, closeReturned, initReturnedOK, lastInit, initCalled,
                   workload, input>>

PureNext ==
    \/ BuildWithExtraParams
    \/ ApplySplitStatements
    \/ SubstituteAndSplit
    \/ ApplyGenerate
    \/ BuildAndParse
    \/ ApplyParse

PureSpec == PureInit /\ [][PureNext]_vars

----------------------------------------------------------------------------
(* Properties of the lifecycle calls.                                      *)

LifecycleOps == {"NewUser", "UpdateUser", "DeleteUser"}

\* The fragments the server ran for the call `id`, in the order it ran them.
ExecutedBy(id) ==
    LET own == SelectSeq(execLog, LAMBDA e : e.id = id)
    IN  [i \in 1..Len(own) |-> own[i].fragment]

\* The fragment lists that executing `statements` with the placeholder map m
\* may yield: statement by statement, each substituted, then split.
RECURSIVE FragmentLists(_, _)
FragmentLists(statements, m) ==
    IF statements = <<>> THEN {<<>>}
    ELSE {splitStatements(p) \o rest :
             p \in QueryHelperResults(Head(statements), m),
             rest \in FragmentLists(Tail(statements), m)}

\* The fragment lists a lifecycle call that succeeds may have executed.
ExpectedFragmentLists(call) ==
    CASE call.op = "NewUser" ->
            FragmentLists(call.req.Commands, NewUserMap(call.username, call.req))
      [] call.op = "DeleteUser" ->
            FragmentLists(RevocationStatements(call.req), DeleteUserMap(call.req))
      [] call.op = "UpdateUser" ->
            {p \o e :
                p \in (IF call.req.Password.present
                       THEN FragmentLists(PasswordStatements(call.req.Password),
                                          PasswordMap(call.req.Username, call.req.Password))
                       ELSE {<<>>}),
                e \in (IF call.req.Expiration.present
                       THEN FragmentLists(call.req.Expiration.Commands,
                                          ExpirationMap(call.req.Username,
                                                        call.req.Expiration))
                       ELSE {<<>>})}

\* C1: the fragment-execution windows of concurrent NewUser, UpdateUser and
\* DeleteUser calls never overlap: in the server's recording, between two
\* fragments of one call there is no fragment of another call.
C1_WindowsNeverOverlap ==
    \A i, j, k \in 1..Len(execLog) :
        (i < j /\ j < k /\ execLog[i].id = execLog[k].id)
            => execLog[j].id = execLog[i].id

\* C1 witness: a NewUser has executed two fragments while another NewUser,
\* called concurrently, waits for the lock.
C1_Witness ==
    \E c, d \in Calls :
        /\ c # d
        /\ calls[c].op = "NewUser" /\ Len(ExecutedBy(calls[c].id)) = 2
        /\ calls[d].op = "NewUser" /\ calls[d].pc = "NewUser_Lock"

\* The positions at which a call probes, opens, closes or executes on the
\* cached administrative handle.
HandlePCs ==
    {"Connection", "Connection_Ping", "Connection_Close", "Connection_Open",
     "Init_Ping", "exec_stmt", "exec_frag", "Close"}

\* C2: at most one call in flight is probing, opening, closing or executing
\* on the cached administrative handle.
C2_OneCallOnHandle ==
    Cardinality({c \in Calls : calls[c].pc \in HandlePCs}) <= 1

\* C2 witness: a call probes the cached handle while an Initialize, called
\* concurrently, waits for the lock.
C2_Witness ==
    \E c, d \in Calls :
        /\ c # d
        /\ calls[c].pc = "Connection_Ping"
        /\ calls[d].op = "Initialize" /\ calls[d].pc = "Init_Lock"

\* The positions at which a call reads or writes the username template, the
\* connection configuration, the initialized flag or the cached handle.
SharedStatePCs ==
    {"Initialize_SetTemplate", "Init", "Init_Ping", "Connection", "Connection_Ping",
     "Connection_Close", "Connection_Open", "NewUser_Generate", "exec_frag", "Close"}

\* C3: every read or write of shared instance state by Initialize, NewUser,
\* UpdateUser, DeleteUser and Close happens while the call holds the lock.
C3_SharedStateUnderLock ==
    \A c \in Calls : calls[c].pc \in SharedStatePCs => mutex = c

\* C4: the first fragment whose execution fails aborts the call: the call
\* returns an error naming that fragment, and what it executed is exactly
\* the fragments that precede the failing one, which stay applied.
C4_FirstFailureAborts ==
    \A c \in Calls :
        calls[c].failed # <<>> =>
            /\ calls[c].pc = "Unlock"
            /\ calls[c].err = [kind |-> "exec", fragment |-> calls[c].failed]
            /\ \E exp \in ExpectedFragmentLists(calls[c]) :
                  LET done == ExecutedBy(calls[c].id)
                  IN  /\ Len(done) < Len(exp)
                      /\ SubSeq(exp, 1, Len(done)) = done
                      /\ exp[Len(done) + 1] = calls[c].failed

\* C4 witness: a call's fragment failed after an earlier fragment of the
\* same call was executed.
C4_Witness ==
    \E c \in Calls : calls[c].failed # <<>> /\ Len(ExecutedBy(calls[c].id)) > 0

\* C5: a lifecycle call that succeeds has executed exactly, in order and
\* once each, the fragments of its statements: the concatenation, in list
\* order, of each statement substituted and split.
C5_SuccessExecutesAllInOrder ==
    \A c \in Calls :
        (calls[c].pc = "Unlock" /\ calls[c].op \in LifecycleOps /\ calls[c].err = NoError)
            => ExecutedBy(calls[c].id) \in ExpectedFragmentLists(calls[c])

\* C5 witness: a NewUser with two statements returns success.
C5_Witness ==
    \E c \in Calls :
        /\ calls[c].pc = "Unlock" /\ calls[c].op = "NewUser" /\ calls[c].err = NoError
        /\ Len(calls[c].req.Commands) = 2
        /\ Len(ExecutedBy(calls[c].id)) = 2

\* C6: NewUser with an empty creation-statement list fails with the creation
\* error; no step of it generates a username, takes the lock, obtains the
\* connection, executes a fragment or changes the instance.
C6_NoCreationStatementsFails ==
    [][\A c \in Calls :
          (/\ calls[c].op = "NewUser"
           /\ Len(calls[c].req.Commands) = 0
           /\ calls'[c] # calls[c])
          => /\ instance' = instance
             /\ mutex' = mutex
             /\ \A i \in 1..Len(execLog') : execLog'[i].id # calls[c].id
             /\ IF calls[c].pc = "NewUser"
                THEN /\ calls'[c].pc = "Return"
                     /\ calls'[c].err.kind = "no_creation_statements"
                     /\ calls'[c].username = <<>>
                     /\ calls'[c].conn = 0
                ELSE calls[c].pc = "Return" /\ calls'[c].pc = "idle"]_vars

\* C6 witness: the creation error is returned on an initialized instance
\* that holds a cached handle.
C6_Witness ==
    \E c \in Calls :
        /\ calls[c].op = "NewUser" /\ Len(calls[c].req.Commands) = 0
        /\ calls[c].pc = "Return" /\ calls[c].err.kind = "no_creation_statements"
        /\ initialized /\ db # 0

\* C7: UpdateUser with neither a password change nor an expiration change
\* fails with "no changes requested"; no step of it takes the lock,
\* executes a fragment or changes the instance.
C7_NoChangesFails ==
    [][\A c \in Calls :
          (/\ calls[c].op = "UpdateUser"
           /\ ~calls[c].req.Password.present
           /\ ~calls[c].req.Expiration.present
           /\ calls'[c] # calls[c])
          => /\ instance' = instance
             /\ mutex' = mutex
             /\ \A i \in 1..Len(execLog') : execLog'[i].id # calls[c].id
             /\ IF calls[c].pc = "UpdateUser"
                THEN /\ calls'[c].pc = "Return"
                     /\ calls'[c].err.kind = "no_changes"
                     /\ calls'[c].conn = 0
                ELSE calls[c].pc = "Return" /\ calls'[c].pc = "idle"]_vars

\* C7 witness: the error is returned on an initialized instance that holds
\* a cached handle.
C7_Witness ==
    \E c \in Calls :
        /\ calls[c].op = "UpdateUser" /\ calls[c].pc = "Return"
        /\ calls[c].err.kind = "no_changes"
        /\ initialized /\ db # 0

\* A lifecycle call that has to obtain the connection.
NeedsConnection(call) ==
    \/ call.op = "NewUser" /\ Len(call.req.Commands) > 0
    \/ call.op = "UpdateUser" /\ call.req.Password.present
    \/ call.op = "DeleteUser"

\* C8: as long as Init was never called, no handle is opened and no
\* fragment is executed, and a NewUser with statements, an UpdateUser with
\* a password change and a DeleteUser return the not-initialized error.
C8_NotInitializedError ==
    ~initCalled =>
        /\ handles = <<>>
        /\ execLog = <<>>
        /\ \A c \in Calls :
              (calls[c].pc = "Unlock" /\ NeedsConnection(calls[c]))
                  => calls[c].err.kind = "not_initialized"

\* C8 witness: a DeleteUser returns the not-initialized error before any
\* call of Init.
C8_Witness ==
    /\ ~initCalled
    /\ \E c \in Calls :
          /\ calls[c].op = "DeleteUser" /\ calls[c].pc = "Unlock"
          /\ calls[c].err.kind = "not_initialized"

\* C9: the instance is Initialized only after some Initialize has returned
\* successfully (or while an Initialize is running under the lock): an
\* Initialize that returns an error leaves an Uninitialized instance
\* Uninitialized.
C9_InitializedOnlyAfterSuccess ==
    initialized =>
        \/ initReturnedOK
        \/ \E c \in Calls : calls[c].op = "Initialize" /\ mutex = c

\* C10: once Close has returned, no NewUser, UpdateUser or DeleteUser called
\* later opens an administrative handle or executes a fragment.
C10_ClosedIsTerminal ==
    \A c \in Calls :
        (calls[c].afterClose /\ calls[c].op \in LifecycleOps)
            => /\ ExecutedBy(calls[c].id) = <<>>
               /\ \A h \in 1..Len(handles) : handles[h].by # calls[c].id

C12_MissingHostPortFails ==
    \A c \in Calls :
        (/\ calls[c].op = "Initialize" /\ calls[c].pc = "Unlock"
         /\ "connection_url" \notin DOMAIN calls[c].req.Config
         /\ {"host", "port"} \ DOMAIN calls[c].req.Config # {})
        => /\ calls[c].err.kind = "config"
           /\ \A h \in 1..Len(handles) : handles[h].by # calls[c].id

\* C13: Connection returns the cached handle exactly when one is cached and
\* its probe succeeded; a handle whose probe failed is closed and cleared
\* before a fresh one is opened, the fresh one becomes the cached one, and a
\* fragment is executed only on the cached, open handle.
C13_ConnectionReuseAndReplace ==
    [][\A c \in Calls :
          calls'[c] # calls[c] =>
             /\ (calls[c].conn = 0 /\ calls'[c].conn # 0) =>
                   /\ calls'[c].conn = db'
                   /\ handles'[db'].open
                   /\ (db # 0 /\ db' = db) <=> calls[c].pc = "Connection_Ping"
                   /\ calls[c].pc = "Connection_Ping" => handles' = handles
                   /\ calls[c].pc # "Connection_Ping" =>
                         /\ calls[c].pc = "Connection_Open"
                         /\ db = 0
                         /\ db' = Len(handles) + 1
                         /\ \A h \in 1..Len(handles) : ~handles[h].open
             /\ calls[c].pc = "Connection_Close" =>
                   /\ calls'[c].pc = "Connection_Open"
                   /\ db # 0 /\ db' = 0
                   /\ ~handles'[db].open
                   /\ Len(handles') = Len(handles)
             /\ Len(execLog') > Len(execLog) =>
                   /\ execLog'[Len(execLog')].handle = db
                   /\ db # 0 /\ handles[db].open
                   /\ calls[c].conn = db]_vars

\* C13 witness: a fragment was executed on the fresh handle that replaced a
\* stale one (this workload never calls Close).
C13_Witness ==
    /\ workload = "statements"
    /\ Len(handles) = 2 /\ ~handles[1].open /\ db = 2
    /\ \E i \in 1..Len(execLog) : execLog[i].handle = 2

\* C14: an UpdateUser with both changes executes the password fragments
\* before any expiration fragment; what it has executed is always a prefix
\* of password fragments followed by expiration fragments, so a failed
\* password step leaves no expiration fragment executed and a failed
\* expiration step leaves the password change applied; the call returns
\* success exactly when all of them were executed.
C14_PasswordBeforeExpiration ==
    \A c \in Calls :
        (/\ calls[c].op = "UpdateUser"
         /\ calls[c].req.Password.present /\ calls[c].req.Expiration.present)
        => \E p \in FragmentLists(PasswordStatements(calls[c].req.Password),
                                  PasswordMap(calls[c].req.Username,
                                              calls[c].req.Password)),
              e \in FragmentLists(calls[c].req.Expiration.Commands,
                                  ExpirationMap(calls[c].req.Username,
                                                calls[c].req.Expiration)) :
              LET done == ExecutedBy(calls[c].id)
                  all  == p \o e
              IN  /\ Len(done) <= Len(all)
                  /\ SubSeq(all, 1, Len(done)) = done
                  /\ calls[c].pc = "Unlock" =>
                        /\ calls[c].err = NoError <=> done = all
                        /\ calls[c].failed # <<>> => calls[c].err.kind = "exec"

\* C14 witness: the expiration step of an UpdateUser with both changes
\* failed after the password fragment was executed.
C14_Witness ==
    \E c \in Calls :
        /\ calls[c].op = "UpdateUser" /\ calls[c].pc = "Unlock"
        /\ calls[c].req.Password.present /\ calls[c].req.Expiration.present
        /\ calls[c].failed # <<>>
        /\ Len(ExecutedBy(calls[c].id)) = 1

\* The positions inside Connection.
ConnectionPCs == {"Connection", "Connection_Ping", "Connection_Close", "Connection_Open"}

\* C15: an UpdateUser that carries only an expiration change without
\* statements returns success; no step of it obtains, probes or opens the
\* connection, executes a fragment or changes the instance, initialized
\* or not, closed or not.
C15_ExpirationWithoutStatementsNoOp ==
    [][\A c \in Calls :
          (/\ calls[c].op = "UpdateUser"
           /\ ~calls[c].req.Password.present
           /\ calls[c].req.Expiration.present
           /\ Len(calls[c].req.Expiration.Commands) = 0
           /\ calls'[c] # calls[c])
          => /\ instance' = instance
             /\ calls'[c].pc \notin ConnectionPCs \cup {"exec_stmt", "exec_frag", "Return"}
             /\ calls'[c].conn = 0
             /\ \A i \in 1..Len(execLog') : execLog'[i].id # calls[c].id
             /\ calls'[c].pc = "Unlock" => calls'[c].err = NoError]_vars

\* C15 witness: such an UpdateUser returns success on an instance that was
\* never initialized.
C15_Witness ==
    \E c \in Calls :
        /\ calls[c].op = "UpdateUser" /\ calls[c].pc = "Unlock"
        /\ ~calls[c].req.Password.present /\ calls[c].req.Expiration.present
        /\ Len(calls[c].req.Expiration.Commands) = 0
        /\ calls[c].err = NoError
        /\ ~initialized /\ ~initCalled

\* ALTER USER IF EXISTS '<username>' IDENTIFIED BY '<password>'
DefaultRotateFragment(username, password) ==
    <<"A","L","T","E","R"," ","U","S","E","R"," ","I","F"," ","E","X","I","S","T","S"," ","'">>
    \o username
    \o <<"'"," ","I","D","E","N","T","I","F","I","E","D"," ","B","Y"," ","'">>
    \o password \o <<"'">>

\* C16: a successful UpdateUser with only a password change has executed,
\* when the change supplies no statements, exactly one fragment, the default
\* ALTER USER ... IDENTIFIED BY for the request's username and new password;
\* when it supplies statements, their fragments and not the default.
C16_DefaultRotationStatement ==
    \A c \in Calls :
        (/\ calls[c].op = "UpdateUser" /\ calls[c].pc = "Unlock"
         /\ calls[c].req.Password.present /\ ~calls[c].req.Expiration.present
         /\ calls[c].err = NoError)
        => LET req      == calls[c].req
               done     == ExecutedBy(calls[c].id)
               expected == DefaultRotateFragment(req.Username, req.Password.NewPassword)
           IN  IF Len(req.Password.Commands) = 0
               THEN done = <<expected>>
               ELSE /\ done \in FragmentLists(req.Password.Commands,
                                              PasswordMap(req.Username, req.Password))
                    /\ \A i \in 1..Len(done) : done[i] # expected

\* C16 witness: a password change without statements returns success.
C16_Witness ==
    \E c \in Calls :
        /\ calls[c].op = "UpdateUser" /\ calls[c].pc = "Unlock"
        /\ calls[c].req.Password.present /\ ~calls[c].req.Expiration.present
        /\ Len(calls[c].req.Password.Commands) = 0
        /\ calls[c].err = NoError

\* DROP USER IF EXISTS '<username>'
DefaultRevocationFragment(username) ==
    <<"D","R","O","P"," ","U","S","E","R"," ","I","F"," ","E","X","I","S","T","S"," ","'">>
    \o username \o <<"'">>

\* C17: a successful DeleteUser has executed, when the request supplies no
\* revocation statements, exactly one fragment, DROP USER IF EXISTS for the
\* request's username; when it supplies statements, their fragments and not
\* the default; a DeleteUser one of whose fragments failed returns an error.
C17_DefaultRevocationStatement ==
    \A c \in Calls :
        (calls[c].op = "DeleteUser" /\ calls[c].pc = "Unlock")
        => LET req      == calls[c].req
               done     == ExecutedBy(calls[c].id)
               expected == DefaultRevocationFragment(req.Username)
           IN  /\ calls[c].failed # <<>> => calls[c].err.kind = "exec"
               /\ calls[c].err = NoError =>
                     IF Len(req.Commands) = 0
                     THEN done = <<expected>>
                     ELSE /\ done \in FragmentLists(req.Commands, DeleteUserMap(req))
                          /\ \A i \in 1..Len(done) : done[i] # expected

\* C17 witness: a DeleteUser without revocation statements returns success.
C17_Witness ==
    \E c \in Calls :
        /\ calls[c].op = "DeleteUser" /\ calls[c].pc = "Unlock"
        /\ Len(calls[c].req.Commands) = 0
        /\ calls[c].err = NoError
        /\ Len(ExecutedBy(calls[c].id)) = 1

----------------------------------------------------------------------------
(* Properties of the text functions.                                       *)

HasSemicolon(v) == \E i \in 1..Len(v) : v[i] = ";"

\* The value v with every ';' replaced by a letter.
WithoutSemicolons(v) == [i \in 1..Len(v) |-> IF v[i] = ";" THEN "a" ELSE v[i]]

\* C18: when a username or password that contains ';' is substituted into
\* a placeholder written inside quotes, the fragments are as many as with
\* the same value without its ';', and each is a fragment of the statement
\* template with the values substituted: no boundary falls inside the value.
C18_NoBoundaryInsideValue ==
    (/\ input.fn = "QueryHelper" /\ output.done
     /\ HasSemicolon(input.username) \/ HasSemicolon(input.password))
    => LET plain    == [input EXCEPT !.username = WithoutSemicolons(@),
                                     !.password = WithoutSemicolons(@)]
           template == splitStatements(input.statement)
       IN  /\ \E p \in QueryHelperResults(plain.statement, SubstituteMap(plain)) :
                 Len(output.fragments) = Len(splitStatements(p))
           /\ Len(output.fragments) = Len(template)
           /\ \A i \in 1..Len(template) :
                 output.fragments[i]
                     \in QueryHelperResults(template[i], SubstituteMap(input))

\* The quote character of the region that is open after the first i
\* characters of s, or "" outside every region.
RECURSIVE OpenQuote(_, _)
OpenQuote(s, i) ==
    IF i = 0 THEN ""
    ELSE LET q == OpenQuote(s, i - 1)
         IN  IF q = "" THEN (IF s[i] \in {"'", "\""} THEN s[i] ELSE "")
             ELSE IF s[i] = q THEN "" ELSE q

\* The positions of the ';' of s that lie outside every quoted region.
Cuts(s) == {i \in 1..Len(s) : s[i] = ";" /\ OpenQuote(s, i - 1) = ""}

\* s cut at each position of Cuts(s), each piece trimmed, the empty pieces
\* dropped.
CutAndTrim(s) ==
    LET ends     == Cuts(s) \cup {Len(s) + 1}
        End(k)   == CHOOSE e \in ends : Cardinality({d \in ends : d < e}) = k - 1
        Start(k) == IF k = 1 THEN 1 ELSE End(k - 1) + 1
        pieces   == [k \in 1..Cardinality(ends) |->
                        TrimSpace(SubSeq(s, Start(k), End(k) - 1))]
    IN  SelectSeq(pieces, LAMBDA p : p # <<>>)

\* C19: splitStatements returns exactly the input cut at each ';' outside a
\* quoted region, the pieces trimmed and the empty ones dropped; a region
\* opens at the first quote outside a region and closes at the next quote of
\* the same kind, or never.
C19_SplitIsCutAndTrim ==
    (input.fn = "splitStatements" /\ output.done)
        => output.fragments = CutAndTrim(input.s)

\* C19 witness: an input with a ';' inside a quoted region and a ';' outside
\* every region was split.
C19_Witness ==
    /\ input.fn = "splitStatements" /\ output.done
    /\ \E i, j \in 1..Len(input.s) :
          /\ input.s[i] = ";" /\ OpenQuote(input.s, i - 1) # ""
          /\ input.s[j] = ";" /\ OpenQuote(input.s, j - 1) = ""

\* C20: every fragment splitStatements returns is non-empty, has no white
\* space at either end, and neither starts nor ends with a ';' outside
\* quotes; an input of nothing but white space and semicolons yields the
\* empty list.
C20_FragmentsTrimmedNonEmpty ==
    (input.fn = "splitStatements" /\ output.done)
        => /\ \A i \in 1..Len(output.fragments) :
                 LET f == output.fragments[i]
                 IN  /\ f # <<>>
                     /\ ~IsSpace(f[1]) /\ ~IsSpace(f[Len(f)])
                     /\ f[1] # ";"
                     /\ ~(f[Len(f)] = ";" /\ OpenQuote(f, Len(f) - 1) = "")
           /\ (\A k \in 1..Len(input.s) : input.s[k] \in {" ", ";"})
                 => output.fragments = <<>>

\* C20 witness: an input made of semicolons and white space was split into
\* the empty list.
C20_Witness ==
    /\ input.fn = "splitStatements" /\ output.done
    /\ \E i, j \in 1..Len(input.s) : input.s[i] = ";" /\ input.s[j] = " "
    /\ \A k \in 1..Len(input.s) : input.s[k] \in {" ", ";"}
    /\ output.fragments = <<>>

\* C21: substitution is deterministic: every substitution of the same
\* statement with the same placeholder map yields the same string, and so
\* the same fragments, also when a value is the text of another placeholder.
C21_SubstitutionDeterministic ==
    (input.fn = "QueryHelper" /\ output.done)
        => \A p \in QueryHelperResults(input.statement, SubstituteMap(input)) :
              splitStatements(p) = output.fragments

\* v-<display name truncated to 8>-<role name truncated to 8>-
DefaultPrefix(displayName, roleName) ==
    <<"v", "-">>
    \o (IF Len(displayName) > 8 THEN SubSeq(displayName, 1, 8) ELSE displayName)
    \o <<"-">>
    \o (IF Len(roleName) > 8 THEN SubSeq(roleName, 1, 8) ELSE roleName)
    \o <<"-">>

\* The fixed maximum length of a username.
MaxUsernameLen == 32

C23_RandomComponentSurvives ==
    (input.fn = "Generate" /\ input.template = defaultUserNameTemplate /\ output.done)
        => LET prefix == DefaultPrefix(input.displayName, input.roleName)
           IN  /\ Len(output.username) >= Len(prefix) + 15
               /\ \A i \in (Len(prefix) + 1)..(Len(prefix) + 15) :
                     output.username[i] \in Letters \cup Digits

----------------------------------------------------------------------------
(* Properties of Initialize and of the username.                           *)

\* The Initialize call of goroutine c asks for the template no parser accepts.
AsksUnparsableTemplate(c) ==
    /\ calls[c].op = "Initialize"
    /\ GetUsernameTemplate(calls[c].req.Config) = UnparsableUserNameTemplate

\* C25: an Initialize whose username template cannot be parsed returns the
\* parse error as its first step, without reaching the connection producer,
\* and no step of it changes the installed template, the configuration, the
\* initialized flag, the cached handle or the lock; the installed template
\* always parses, and no NewUser returns a template parse error.
C25_UnparsableTemplateRejected ==
    /\ [][\A c \in Calls :
            (AsksUnparsableTemplate(c) /\ calls'[c] # calls[c])
            => /\ instance' = instance
               /\ mutex' = mutex
               /\ initCalled' = initCalled
               /\ IF calls[c].pc = "Initialize"
                  THEN /\ calls'[c].pc = "Return"
                       /\ calls'[c].err.kind = "template_parse"
                  ELSE /\ calls[c].pc = "Return"
                       /\ calls'[c].pc = "idle"]_vars
    /\ [](/\ usernameProducer # UnparsableUserNameTemplate
          /\ \A c \in Calls :
                calls[c].op = "NewUser" => calls[c].err.kind # "template_parse")

\* C25 witness: on an initialized instance with a cached handle, an
\* Initialize with an unparsable template is about to return its error.
C25_Witness ==
    \E c \in Calls :
        /\ AsksUnparsableTemplate(c)
        /\ calls[c].pc = "Return" /\ calls[c].err.kind = "template_parse"
        /\ initialized /\ db # 0

\* The fragment lists of a NewUser whose statements have {{name}} and
\* {{username}} replaced by `username`.
FragmentListsFor(username, req) ==
    FragmentLists(req.Commands,
                  (K_name :> username) @@ (K_username :> username)
                  @@ (K_password :> req.Password)
                  @@ (K_expiration :> FormatDateTime(req.Expiration)))

\* C26: within one NewUser call the username, once generated, never changes;
\* the map of the call gives {{name}} and {{username}} that value; a call
\* that succeeds returns the value its executed fragments were built with.
C26_UsernameGeneratedOnce ==
    /\ [][\A c \in Calls :
            (/\ calls[c].op = "NewUser" /\ calls[c].username # <<>>
             /\ calls'[c].id = calls[c].id)
            => calls'[c].username = calls[c].username]_vars
    /\ [](\A c \in Calls :
            calls[c].op = "NewUser" =>
                /\ calls[c].m # <<>> =>
                      /\ calls[c].m[K_name] = calls[c].username
                      /\ calls[c].m[K_username] = calls[c].username
                /\ (calls[c].pc = "Unlock" /\ calls[c].err = NoError) =>
                      ExecutedBy(calls[c].id)
                          \in FragmentListsFor(calls[c].username, calls[c].req))

\* C26 witness: a NewUser whose statement uses {{name}} and {{username}}
\* has executed both fragments and is about to return its username.
C26_Witness ==
    \E c \in Calls :
        /\ calls[c].op = "NewUser" /\ calls[c].pc = "Unlock" /\ calls[c].err = NoError
        /\ calls[c].req.Commands = <<CreateAndGrantStatement>>
        /\ calls[c].username # <<>>
        /\ Len(ExecutedBy(calls[c].id)) = 2

----------------------------------------------------------------------------
(* Properties of the connection string and of the configuration.           *)

\* C27: for every builder that passes Check, parsing the string that
\* BuildConnectionString produces succeeds and yields the same host, port,
\* database, tls flag and tls-skip-verify flag.
C27_BuildParseRoundTrip ==
    (input.fn = "BuildConnectionString" /\ output.done /\ Check(input.builder))
        => /\ output.parsed.ok
           /\ output.parsed.builder.host = input.builder.host
           /\ output.parsed.builder.port = input.builder.port
           /\ output.parsed.builder.database = input.builder.database
           /\ output.parsed.builder.tls = input.builder.tls
           /\ output.parsed.builder.tlsSkipVerify = input.builder.tlsSkipVerify

\* An Initialize call that holds the lock and is about to return success.
InitSucceeds(c) ==
    calls[c].op = "Initialize" /\ calls[c].pc = "Unlock" /\ calls[c].err = NoError

\* C28: when an Init succeeds, max-open is 4 if its configuration omits
\* max_open_connections, and max-idle equals max-open if its configuration
\* omits max_idle_connections, whatever Init calls came before.
C28_PoolLimitsFollowConfiguration ==
    \A c \in Calls :
        InitSucceeds(c) =>
            LET conf == calls[c].req.Config
            IN  /\ "max_open_connections" \notin DOMAIN conf
                      => cfg.MaxOpenConnections = 4
                /\ "max_idle_connections" \notin DOMAIN conf
                      => cfg.MaxIdleConnections = cfg.MaxOpenConnections

\* The supplied URL with the placeholders replaced by the escaped username
\* and password of the configuration conf itself ("" for a key it lacks).
SubstitutedURL(conf) ==
    ReplaceAll(ReplaceAll(conf.connection_url, Placeholder(K_username),
                          PathEscape(StrField(conf, "username", <<>>))),
               Placeholder(K_password), PathEscape(StrField(conf, "password", <<>>)))

\* C29: when an Init whose configuration supplies connection_url succeeds,
\* the effective URL is the supplied one with {{username}} and {{password}}
\* replaced by the escaped username and password of that configuration, and
\* contains neither marker.
C29_URLFromSuppliedConfiguration ==
    \A c \in Calls :
        (InitSucceeds(c) /\ "connection_url" \in DOMAIN calls[c].req.Config)
            => /\ cfg.ConnectionURL = SubstitutedURL(calls[c].req.Config)
               /\ IndexFrom(cfg.ConnectionURL, 1, Placeholder(K_username)) = 0
               /\ IndexFrom(cfg.ConnectionURL, 1, Placeholder(K_password)) = 0

\* C30: on an initialized instance the password SecretValues exposes is the
\* password embedded in the effective connection URL.
C30_SecretIsCurrentPassword ==
    (initialized /\ cfg.ConnectionURL # <<>>)
        => \A secret \in SecretValues(cfg) :
              secret = NewConnStringBuilderFromConnString(cfg.ConnectionURL).builder.password

----------------------------------------------------------------------------
(* Properties of cancellation, of the frame of the calls and of the lock.  *)

\* C31: once the context of a call is cancelled while a fragment is in
\* flight, the call executes no further fragment, the fragments it had
\* executed stay in the server's recording, and it returns the error of the
\* aborted fragment.
C31_CancellationAbortsBatch ==
    /\ [][\A c \in Calls :
            (calls[c].cancelled /\ calls'[c].id = calls[c].id)
            => /\ ExecutedBy(calls[c].id)' = ExecutedBy(calls[c].id)
               /\ calls'[c].pc \in {"exec_frag", "Unlock"}]_vars
    /\ [](\A c \in Calls :
            (calls[c].cancelled /\ calls[c].pc = "Unlock")
            => /\ calls[c].err.kind = "exec"
               /\ calls[c].err.fragment = calls[c].failed
               /\ calls[c].failed # <<>>)

\* C31 witness: a call of two fragments was cancelled after its first
\* fragment ran and is about to return the error of the second.
C31_Witness ==
    \E c \in Calls :
        /\ calls[c].cancelled /\ calls[c].pc = "Unlock"
        /\ calls[c].err.kind = "exec"
        /\ Len(ExecutedBy(calls[c].id)) = 1

\* C32: no step of a NewUser, UpdateUser, DeleteUser or Close call, whether
\* the call succeeds or fails, changes the connection configuration, the
\* initialized flag or the username template.
C32_ConfigurationOnlyByInitialize ==
    [][\A c \in Calls :
          (calls[c].op \in LifecycleOps \cup {"Close"} /\ calls'[c] # calls[c])
          => /\ cfg' = cfg
             /\ initialized' = initialized
             /\ usernameProducer' = usernameProducer]_vars

\* C32 witness: a Close that closed the cached handle, which a NewUser,
\* UpdateUser or DeleteUser had opened, is about to return.
C32_Witness ==
    \E c \in Calls :
        /\ calls[c].op = "Close" /\ calls[c].pc = "Unlock"
        /\ initialized /\ db = 0
        /\ \E h \in 1..Len(handles) : ~handles[h].open /\ handles[h].by # calls[c].id

\* The positions of a call before it has the lock, and after it returned.
WithoutLockPCs ==
    LockPCs \cup {"idle", "Return", "Initialize", "Initialize_SetTemplate", "NewUser",
                  "UpdateUser"}

\* C33: a call that holds the lock is never at a Lock, the return of a call
\* that holds the lock releases it, and under fair scheduling every invoked
\* call eventually returns: no goroutine waits forever.
C33_LockReleasedAndCallsReturn ==
    /\ [](\A c \in Calls : mutex = c => calls[c].pc \notin WithoutLockPCs)
    /\ [][\A c \in Calls :
            (mutex = c /\ calls'[c].pc = "idle") => mutex' = NoCall]_vars
    /\ \A c \in Calls : (calls[c].pc # "idle") ~> (calls[c].pc = "idle")

\* C33 witness: a call waits for the lock while an Initialize that verifies
\* its connection holds it.
C33_Witness ==
    \E c, d \in Calls :
        /\ calls[c].pc \in LockPCs
        /\ mutex = d /\ calls[d].op = "Initialize" /\ calls[d].pc = "Init_Ping"

----------------------------------------------------------------------------
(* Properties of the parser and of the builder.                            *)

\* C38: parsing a connection string sets each of the tls, tls-skip-verify
\* and debug flags if and only if its parameter (secure, skip_verify, debug)
\* is present with exactly the value 'true'.
C38_FlagsOnlyFromLiteralTrue ==
    (input.fn = "NewConnStringBuilderFromConnString" /\ output.done)
        => /\ output.parsed.ok
           /\ output.parsed.builder.tls = (input.secure = <<"t","r","u","e">>)
           /\ output.parsed.builder.tlsSkipVerify = (input.skipVerify = <<"t","r","u","e">>)
           /\ output.parsed.builder.debug = (input.debug = <<"t","r","u","e">>)

\* C38 witness: a string with secure=TRUE, skip_verify=true and no debug
\* parameter was parsed.
C38_Witness ==
    /\ input.fn = "NewConnStringBuilderFromConnString" /\ output.done
    /\ input.secure = <<"T","R","U","E">>
    /\ input.skipVerify = <<"t","r","u","e">>
    /\ input.debug = Absent
    /\ ~output.parsed.builder.tls /\ output.parsed.builder.tlsSkipVerify

\* The same WithExtraParam calls made in another order.
Reordered(adds) ==
    {[i \in 1..Len(adds) |-> adds[order[i]]] : order \in RangeOrders(1..Len(adds))}

\* C37: the string BuildConnectionString returns is the only one it can
\* return for the builder, and for any builder given the same extra
\* parameters in another order; its query has every key of the builder,
\* each once, in ascending order.
C37_BuildDeterministicAndSorted ==
    (input.fn = "WithExtraParam" /\ output.done)
        => LET built == WithExtraParams(input.builder, input.adds)
               query == ParseQuery(CutAfter(output.connString, "?"))
           IN  /\ \A adds \in Reordered(input.adds) :
                     BuildConnectionStrings(WithExtraParams(input.builder, adds))
                         = {output.connString}
               /\ \A i \in 1..(Len(query) - 1) : StringLess(query[i][1], query[i + 1][1])
               /\ {query[i][1] : i \in 1..Len(query)} = DOMAIN QueryValues(built)

\* C37 witness: a string was built after two extra parameters were added
\* in descending key order to a builder with all its fields set.
C37_Witness ==
    /\ input.fn = "WithExtraParam" /\ output.done
    /\ Len(input.adds) = 2
    /\ StringLess(input.adds[2][1], input.adds[1][1])
    /\ input.builder.debug

----------------------------------------------------------------------------
(* Properties of the responses and of the handles.                         *)

\* C36: the response of a NewUser carries a username if and only if the
\* call executed every fragment of every creation statement; a call that
\* failed at a fragment returns no username, whatever it had executed.
C36_UsernameOnlyOnFullSuccess ==
    \A c \in Calls :
        (calls[c].op = "NewUser" /\ calls[c].pc \in {"Unlock", "Return"})
            => /\ (NewUserResponse(calls[c]).Username # <<>>)
                    <=> (/\ Len(calls[c].req.Commands) > 0
                         /\ calls[c].failed = <<>>
                         /\ ExecutedBy(calls[c].id)
                               \in FragmentListsFor(calls[c].username, calls[c].req))
               /\ calls[c].failed # <<>> => NewUserResponse(calls[c]).Username = <<>>

\* C36 witness: a NewUser whose second fragment failed, after the first
\* was executed, is about to return.
C36_Witness ==
    \E c \in Calls :
        /\ calls[c].op = "NewUser" /\ calls[c].pc = "Unlock"
        /\ calls[c].failed # <<>>
        /\ Len(ExecutedBy(calls[c].id)) = 1
        /\ calls[c].username # <<>>

\* C35: every handle the producer opened and has not closed is the cached
\* one; a handle is opened only when every earlier handle is closed, and a
\* failed open leaves no handle cached.
C35_NoHandleLeak ==
    /\ [](\A h \in 1..Len(handles) : handles[h].open => db = h)
    /\ [][/\ Len(handles') > Len(handles)
             => /\ \A h \in 1..Len(handles) : ~handles[h].open
                /\ db' = Len(handles')
          /\ \A c \in Calls :
                (calls[c].pc = "Connection_Open" /\ calls'[c].err.kind = "open")
                => db' = 0 /\ handles' = handles]_vars

\* C35 witness: a stale handle was closed and its replacement is cached.
C35_Witness ==
    /\ Len(handles) >= 2
    /\ db = Len(handles)
    /\ handles[db].open
    /\ ~handles[1].open
\* The effective URL of a producer initialized from conf alone.
ExpectedURL(conf) ==
    WithConnectionURL(WithDefaults(WeakDecode(conf, ZeroProducer))).ConnectionURL

\* C34: once an Initialize has returned successfully with a configuration
\* that differs from that of the successful Initialize before it, every
\* fragment executed by a call made after that return (no other Initialize
\* having been made since) runs on a handle opened from the URL of the new
\* configuration. Stated for the case in which the producer's effective URL
\* is the new configuration's, so that only the handle is in question.
C34_ReconfiguredHandleUsed ==
    [][\A c \in Calls :
          (/\ calls[c].pc = "exec_frag"
           /\ calls'[c] # calls[c]
           /\ Len(execLog') > Len(execLog)
           /\ lastInit.ok /\ lastInit.differs
           /\ calls[c].id > lastInit.at
           /\ cfg.ConnectionURL = ExpectedURL(lastInit.Config)
           /\ \A d \in Calls : calls[d].op # "Initialize")
          => handles[calls[c].conn].url = ExpectedURL(lastInit.Config)]_vars

====
